---- MODULE Spec2Model ----
(***************************************************************************)
(* Embedding-consistency and hybrid-retrieval subsystem of memento-mcp:    *)
(* Neo4jVectorStore (initialize, addVector, removeVector, search,          *)
(* hybridSearchWithRRF, searchByPatternFallback), the embedding writers    *)
(* Neo4jReindexManager.reindexEmbeddings and VoyageMigration.run, and the  *)
(* graph database they share, modelled as a state machine.                 *)
(*                                                                         *)
(* Numbers.  A similarity is an exact rational [num, den]: vector scores   *)
(* and the fallback placeholders are hundredths, RRF contributions are     *)
(* 1/(k+rank).  A vector is a sequence                                     *)
(* of components; a component is one of the classes of IEEE doubles the    *)
(* code tells apart: "0", a normal finite value ("1", "2"), "big" (finite, *)
(* its square overflows to Infinity), "inf" and "nan".                     *)
(* Strings.  A string is a sequence of tokens; CONTAINS is contiguous      *)
(* sub-sequence, the (?i) regular expressions match a token by its lower   *)
(* case.                                                                   *)
(***************************************************************************)
EXTENDS Integers, Sequences, FiniteSets, TLC

VARIABLES initialized, dimensions, index, nodes, last, rx, mg, mm

vars == <<initialized, dimensions, index, nodes, last, rx, mg, mm>>

----------------------------------------------------------------------------
(* Bounds *)

\* vectors have 1..MaxDim components; the configured dimensions are 2..MaxDim
MaxDim == 3
\* the largest explicit options.limit of a search
MaxLimit == 2
\* the graph holds at most MaxNodes Entity nodes
MaxNodes == 3

(* Program constants *)

\* options.limit ?? 5
DefaultLimit == 5
\* rrfK: number = 60
DefaultRrfK == 60
\* 0.75 AS similarity (pattern rows), in hundredths
PatternSimilarity == 75
\* 0.5 AS similarity (recency rows), in hundredths
RecencySimilarity == 50
\* ORDER BY e.createdAt DESC LIMIT 3
RecencyLimit == 3

----------------------------------------------------------------------------
(* Rationals *)

Rat(n, d) == [num |-> n, den |-> d]
Hundredths(n) == Rat(n, 100)

RECURSIVE Gcd(_, _)
Gcd(a, b) == IF b = 0 THEN a ELSE Gcd(b, a % b)

\* an/ad < bn/bd by continued fractions: no product, so no overflow
RECURSIVE FracLess(_, _, _, _)
FracLess(an, ad, bn, bd) ==
    IF an \div ad # bn \div bd THEN an \div ad < bn \div bd
    ELSE IF bn % bd = 0 THEN FALSE
    ELSE IF an % ad = 0 THEN TRUE
    ELSE FracLess(bd, bn % bd, ad, an % ad)

RatLess(a, b) == FracLess(a.num, a.den, b.num, b.den)
RatEq(a, b) == ~RatLess(a, b) /\ ~RatLess(b, a)
RatLeq(a, b) == ~RatLess(b, a)
RatAdd(a, b) ==
    LET n == a.num * b.den + b.num * a.den
        d == a.den * b.den
    IN Rat(n \div Gcd(n, d), d \div Gcd(n, d))

Min(a, b) == IF a <= b THEN a ELSE b

----------------------------------------------------------------------------
(* Vectors *)

NULL == <<>>

Vec(n, c) == [i \in 1..n |-> c]

\* the vectors callers and providers store: normal finite components
StoredVectors == {Vec(n, "1") : n \in 1..MaxDim}

QueryComponents == {"0", "1", "big", "inf", "nan"}

\* query vectors: uniform ones, and normal vectors whose last component is
\* too big to square or not finite
QueryVectors ==
    {Vec(n, c) : n \in 1..MaxDim, c \in QueryComponents}
        \cup {[i \in 1..n |-> IF i = n THEN c ELSE "1"] :
                 n \in 2..MaxDim, c \in {"big", "inf", "nan"}}

\* isFinite(val)
IsFiniteComponent(c) == c \notin {"inf", "nan"}

\* val * val, as a class: "0", "pos" (finite, positive) or "inf"
Square(c) == CASE c = "0" -> "0"
               [] c = "big" -> "inf"
               [] c = "inf" -> "inf"
               [] OTHER -> "pos"

\* sumSquared += val * val
AddSquares(a, b) == CASE a = "inf" \/ b = "inf" -> "inf"
                      [] a = "pos" \/ b = "pos" -> "pos"
                      [] OTHER -> "0"

RECURSIVE SumSquared(_, _)
SumSquared(vector, n) ==
    IF n = 0 THEN "0" ELSE AddSquares(SumSquared(vector, n - 1), Square(vector[n]))

\* a validation that looks at the components and not at the norm
FiniteComponentsOnly(vector) ==
    \A i \in 1..Len(vector) : IsFiniteComponent(vector[i])

vectorHasValidNorm(vector) ==
    IF \E i \in 1..Len(vector) : ~IsFiniteComponent(vector[i])
    THEN FALSE
    ELSE \* Math.sqrt keeps the class; isFinite(l2Norm) && l2Norm > 0
         SumSquared(vector, Len(vector)) = "pos"

----------------------------------------------------------------------------
(* Strings *)

Contains(s, q) ==
    \E i \in 0..(Len(s) - Len(q)) : SubSeq(s, i + 1, i + Len(q)) = q

Lower(t) == IF t = "Test" THEN "test" ELSE t

NameVocabulary == {"test", "search", "keyword", "unique", "vector", "embedding"}
ObsVocabulary == NameVocabulary \cup {"vectorsearch", "similarsearch"}

MatchesAny(s, vocabulary) == \E i \in 1..Len(s) : Lower(s[i]) \in vocabulary

----------------------------------------------------------------------------
(* The graph: Entity nodes in creation order *)

NoTime == -1

\* embeddingModel, embeddingDimensions and embeddingUpdated are set together
\* and removed together: embeddingDimensions stands for the three, and
\* NoProvenance for their absence
NoProvenance == 0

Node(name, etype, live, createdAt, hasObs, obs, emb) ==
    [name |-> name, etype |-> etype, live |-> live, createdAt |-> createdAt,
     hasObs |-> hasObs, obs |-> obs, emb |-> emb, backup |-> NULL,
     embeddingDimensions |-> NoProvenance]

\* the node MERGE (e:Entity {name: $id}) creates: only its name is set
MergedNode(id) == Node(id, "none", FALSE, NoTime, FALSE, <<>>, NULL)

NodeIds == 1..Len(nodes)

HasEmbedding(n) == n.emb # NULL

\* the nodes the vector index holds: an embedding of the index's dimensions
Indexed(i) == HasEmbedding(nodes[i]) /\ Len(nodes[i].emb) = index.dims

----------------------------------------------------------------------------
(* Database queries.  A query either throws or returns rows; the rows of   *)
(* an ORDER BY ... LIMIT query are any top-k sequence the order allows     *)
(* (rows of equal key come in any order).                                  *)

Undefined == [undefined |-> TRUE]

Range(s) == {s[i] : i \in 1..Len(s)}

\* the injective sequences of length m over the set S
RECURSIVE Arrangements(_, _)
Arrangements(S, m) ==
    IF m = 0 THEN {<<>>}
    ELSE UNION {{Append(s, x) : x \in S \ Range(s)} : s \in Arrangements(S, m - 1)}

\* ORDER BY key DESC LIMIT k over the candidates cands
TopK(cands, key, k) ==
    LET m == Min(k, Cardinality(cands))
    IN {s \in Arrangements(cands, m) :
          /\ \A i \in 1..(m - 1) : key[s[i]] >= key[s[i + 1]]
          /\ \A c \in cands \ Range(s) : \A i \in 1..m : key[c] <= key[s[i]]}

SeqMap(Op(_), s) == [i \in 1..Len(s) |-> Op(s[i])]

\* CALL db.index.vector.queryNodes($indexName, $limit, $embedding) throws
\* when the index is missing or the query vector is not of its dimensions
VectorQueryRejected(queryVector) ==
    ~index.exists \/ Len(queryVector) # index.dims

\* the vector query without its WHERE score >= $minScore
VectorQueryRowsUnfiltered(sim, k, minScore) ==
    LET row(i) == [id |-> nodes[i].name, entityType |-> nodes[i].etype,
                   score |-> Hundredths(sim[i])]
    IN {SeqMap(row, s) : s \in TopK({i \in NodeIds : Indexed(i)}, sim, k)}

\* ... YIELD node, score [WHERE score >= $minScore] ORDER BY score DESC
VectorQueryRows(sim, k, minScore) ==
    LET row(i) == [id |-> nodes[i].name, entityType |-> nodes[i].etype,
                   score |-> Hundredths(sim[i])]
        kept(s) == SelectSeq(s, LAMBDA i : sim[i] >= minScore)
    IN {SeqMap(row, kept(s)) : s \in TopK({i \in NodeIds : Indexed(i)}, sim, k)}

\* size([obs IN e.observations WHERE obs CONTAINS $queryText])
ObsMatches(n, queryText) ==
    Cardinality({j \in 1..Len(n.obs) : Contains(n.obs[j], queryText)})

\* the first WHERE of the keyword query; a node without observations
\* passes only by its name (ANY over null is null)
KeywordMatch(n, queryText) ==
    \/ Contains(n.name, queryText)
    \/ n.hasObs /\ ObsMatches(n, queryText) > 0

\* nameBoost + obsMatches * 0.5, in halves
Bm25Halves(n, queryText) ==
    (IF Contains(n.name, queryText) THEN 4 ELSE 2) + ObsMatches(n, queryText)

\* WHERE bm25Score > 0: null (no observations property) does not pass
KeywordQueryRows(queryText, k) ==
    LET cands == {i \in NodeIds : /\ KeywordMatch(nodes[i], queryText)
                                  /\ nodes[i].hasObs
                                  /\ Bm25Halves(nodes[i], queryText) > 0}
        key == [i \in NodeIds |-> Bm25Halves(nodes[i], queryText)]
        row(i) == [id |-> nodes[i].name, entityType |-> nodes[i].etype,
                   score |-> Rat(key[i], 2)]
    IN {SeqMap(row, s) : s \in TopK(cands, key, k)}

RECURSIVE Dedup(_)
Dedup(s) ==
    IF s = <<>> THEN <<>>
    ELSE LET front == Dedup(SubSeq(s, 1, Len(s) - 1))
             x == s[Len(s)]
         IN IF x \in Range(front) THEN front ELSE Append(front, x)

PatternMatch(n) ==
    \/ MatchesAny(n.name, NameVocabulary)
    \/ n.hasObs /\ \E j \in 1..Len(n.obs) : MatchesAny(n.obs[j], ObsVocabulary)

\* ORDER BY e.createdAt DESC: null sorts first
RecencyKey(n) == IF n.createdAt = NoTime THEN MaxNodes + 2 ELSE n.createdAt

\* the fallback query: pattern rows UNION (the 3 newest nodes, LIMIT $limit);
\* the final LIMIT belongs to the second branch, UNION drops equal rows
FallbackQueryRows(limit) ==
    LET ids == [i \in NodeIds |-> i]
        pattern == SelectSeq(ids, LAMBDA i : PatternMatch(nodes[i]))
        key == [i \in NodeIds |-> RecencyKey(nodes[i])]
        patternRows == [i \in 1..Len(pattern) |->
                          [id |-> nodes[pattern[i]].name,
                           entityType |-> nodes[pattern[i]].etype,
                           similarity |-> Hundredths(PatternSimilarity)]]
        recencyRows(s) == [i \in 1..Len(s) |->
                             [id |-> nodes[s[i]].name,
                              entityType |-> nodes[s[i]].etype,
                              similarity |-> Hundredths(RecencySimilarity)]]
    IN {Dedup(patternRows \o recencyRows(SubSeq(s, 1, Min(limit, Len(s))))) :
          s \in TopK(NodeIds, key, RecencyLimit)}

----------------------------------------------------------------------------
(* Reciprocal Rank Fusion (hybridSearchWithRRF, steps 3 and 4) *)

\* rrfScores: a Map in insertion order, as a sequence of [id, data] entries
MapHas(m, id) == \E i \in 1..Len(m) : m[i].id = id
MapGet(m, id) == m[CHOOSE i \in 1..Len(m) : m[i].id = id].data

\* Map.set: a key the map already holds keeps its place
MapSet(m, id, data) ==
    IF MapHas(m, id)
    THEN [i \in 1..Len(m) |-> IF m[i].id = id THEN [id |-> id, data |-> data] ELSE m[i]]
    ELSE Append(m, [id |-> id, data |-> data])

\* const rrfScore = 1 / (rrfK + index + 1), index = rank - 1
RrfScore(rrfK, rank) == Rat(1, rrfK + rank)

\* vectorResults.records.forEach: the first n records
RECURSIVE AddVectorRecords(_, _, _)
AddVectorRecords(V, n, rrfK) ==
    IF n = 0 THEN <<>>
    ELSE MapSet(AddVectorRecords(V, n - 1, rrfK), V[n].id,
                [score |-> RrfScore(rrfK, n), entityType |-> V[n].entityType,
                 vectorScore |-> V[n].score, bm25Score |-> Undefined])

\* keywordResults.records.forEach: the first n records, onto the map m
RECURSIVE AddKeywordRecords(_, _, _, _)
AddKeywordRecords(m, K, n, rrfK) ==
    IF n = 0 THEN m
    ELSE LET prev == AddKeywordRecords(m, K, n - 1, rrfK)
             id == K[n].id
         IN IF MapHas(prev, id)
            THEN MapSet(prev, id,
                        [score |-> RatAdd(MapGet(prev, id).score, RrfScore(rrfK, n)),
                         entityType |-> K[n].entityType,
                         vectorScore |-> MapGet(prev, id).vectorScore,
                         bm25Score |-> K[n].score])
            ELSE MapSet(prev, id,
                        [score |-> RrfScore(rrfK, n), entityType |-> K[n].entityType,
                         vectorScore |-> Undefined, bm25Score |-> K[n].score])

\* the comparator (a, b) => b[1].score - a[1].score is negative: a sorts first
\* a comparison that also moves an entry ahead of its equals
SortsBeforeOrTies(a, b) == RatLeq(b.data.score, a.data.score)

SortsBefore(a, b) == RatLess(b.data.score, a.data.score)

\* Array.prototype.sort is stable: x goes behind every entry it does not
\* sort before
InsertSorted(sorted, x) ==
    LET before == {i \in 1..Len(sorted) : SortsBefore(x, sorted[i])}
        at == IF before = {} THEN Len(sorted) + 1
              ELSE CHOOSE i \in before : \A j \in before : i <= j
    IN SubSeq(sorted, 1, at - 1) \o <<x>> \o SubSeq(sorted, at, Len(sorted))

RECURSIVE SortByScore(_)
SortByScore(entries) ==
    IF entries = <<>> THEN <<>>
    ELSE InsertSorted(SortByScore(SubSeq(entries, 1, Len(entries) - 1)),
                      entries[Len(entries)])

RrfScores(V, K, rrfK) ==
    AddKeywordRecords(AddVectorRecords(V, Len(V), rrfK), K, Len(K), rrfK)

HybridResult(entry) ==
    [id |-> entry.id, similarity |-> entry.data.score,
     metadata |-> [entityType |-> entry.data.entityType,
                   searchMethod |-> "hybrid-rrf",
                   vectorScore |-> entry.data.vectorScore,
                   bm25Score |-> entry.data.bm25Score,
                   rrfScore |-> entry.data.score]]

\* .sort(...).slice(0, limit).map(...)
FuseRRF(V, K, rrfK, limit) ==
    LET sorted == SortByScore(RrfScores(V, K, rrfK))
    IN SeqMap(HybridResult, SubSeq(sorted, 1, Min(limit, Len(sorted))))

----------------------------------------------------------------------------
(* Neo4jVectorStore.search.  Each operator below is the part of the call   *)
(* that settles its result: it sets last' and nothing else.  t is the      *)
(* record of the call so far.                                              *)

Given(o, name) == name \in o.given
Limit(o) == IF Given(o, "limit") THEN o.limit ELSE DefaultLimit
MinSimilarity(o) == IF Given(o, "minSimilarity") THEN o.minSimilarity ELSE 0
RrfK(o) == IF Given(o, "rrfK") THEN o.rrfK ELSE DefaultRrfK

\* the cosine scores the index may report, in hundredths
SimVals == {40, 80}
Sims == {f \in [NodeIds -> SimVals] : \A i \in NodeIds : ~Indexed(i) => f[i] = 40}

FallbackResult(row) ==
    [id |-> row.id, similarity |-> row.similarity,
     metadata |-> [entityType |-> row.entityType]]

VectorResult(row) ==
    [id |-> row.id, similarity |-> row.score,
     metadata |-> [entityType |-> row.entityType, searchMethod |-> "vector"]]

Caught(t, error) == [t EXCEPT !.caught = Append(@, error)]

\* the error db.index.vector.queryNodes raises for this query vector
IndexError == IF ~index.exists THEN "noIndex" ELSE "indexDimension"

searchByPatternFallback(limit, t) ==
    \/ \* getSession or session.run rejects: nothing catches it
       last' = [t EXCEPT !.outcome = "error", !.error = "db", !.path = "fallback"]
    \/ \E rows \in FallbackQueryRows(limit) :
          last' = [t EXCEPT !.outcome = "ok", !.path = "fallback",
                            !.results = SeqMap(FallbackResult, rows)]

\* search, from "Start session" on: the pure vector query
vectorSearch(queryVector, limit, minSimilarity, stage, t) ==
    \/ \* getSession rejects: the outer catch
       searchByPatternFallback(limit, Caught([t EXCEPT ![stage] = "threw"], "db"))
    \/ LET called == [t EXCEPT !.indexCalls =
                          Append(@, [vector |-> queryVector, k |-> limit])]
       IN \/ \* session.run rejects: the inner catch
             searchByPatternFallback(limit,
                 Caught([called EXCEPT ![stage] = "threw"], "db"))
          \/ /\ VectorQueryRejected(queryVector)
             /\ searchByPatternFallback(limit,
                    Caught([called EXCEPT ![stage] = "threw"], IndexError))
          \/ /\ ~VectorQueryRejected(queryVector)
             /\ \E sim \in Sims :
                  \E rows \in VectorQueryRows(sim, limit, minSimilarity) :
                     IF Len(rows) > 0
                     THEN last' = [called EXCEPT ![stage] = "ok", !.outcome = "ok",
                                       !.path = "vector",
                                       !.results = SeqMap(VectorResult, rows)]
                     ELSE searchByPatternFallback(limit,
                              [called EXCEPT ![stage] = "empty"])

\* what search does before it queries: "ok", or the reason for the fallback
Precheck(queryVector) ==
    IF ~initialized THEN "notInitialized"
    ELSE IF Len(queryVector) # dimensions THEN "dimension"
    ELSE IF ~vectorHasValidNorm(queryVector) THEN "invalidNorm"
    ELSE "ok"

\* the first half of search: ensureInitialized and the dimension check throw
\* into the outer catch, an invalid norm returns the fallback directly
searchGuard(queryVector, limit, t) ==
    /\ Precheck(queryVector) # "ok"
    /\ searchByPatternFallback(limit,
          IF Precheck(queryVector) = "invalidNorm" THEN t
          ELSE Caught(t, Precheck(queryVector)))

\* this.search(queryVector, { limit }): no hybridSearch, minSimilarity ?? 0
searchAgain(queryVector, limit, t) ==
    \/ searchGuard(queryVector, limit, t)
    \/ /\ Precheck(queryVector) = "ok"
       /\ vectorSearch(queryVector, limit, 0, "retry", t)

hybridSearchWithRRF(queryVector, queryText, limit, rrfK, t) ==
    \/ \* getSession rejects before the try: search returns this promise
       \* without awaiting it, so its catch does not see the rejection
       last' = [t EXCEPT !.outcome = "error", !.error = "db", !.path = "hybrid"]
    \/ LET called == [t EXCEPT !.indexCalls =
                          Append(@, [vector |-> queryVector, k |-> limit * 2])]
       IN \/ \* the vector query rejects
             searchAgain(queryVector, limit,
                 Caught([called EXCEPT !.primary = "threw"], "db"))
          \/ /\ VectorQueryRejected(queryVector)
             /\ searchAgain(queryVector, limit,
                    Caught([called EXCEPT !.primary = "threw"], IndexError))
          \/ /\ ~VectorQueryRejected(queryVector)
             /\ \E sim \in Sims : \E V \in VectorQueryRows(sim, limit * 2, 0) :
                  \/ \* the keyword query rejects
                     searchAgain(queryVector, limit,
                         Caught([called EXCEPT !.primary = "threw"], "db"))
                  \/ \E K \in KeywordQueryRows(queryText, limit * 2) :
                        LET results == FuseRRF(V, K, rrfK, limit)
                        IN last' = [called EXCEPT
                                      !.primary = IF Len(results) > 0 THEN "ok"
                                                  ELSE "empty",
                                      !.outcome = "ok", !.path = "hybrid",
                                      !.V = V, !.K = K, !.results = results]

SearchCall(queryVector, options) ==
    [op |-> "search", queryVector |-> queryVector, options |-> options,
     outcome |-> "pending", error |-> "none", path |-> "none", results |-> <<>>,
     caught |-> <<>>, primary |-> "none", retry |-> "none", indexCalls |-> <<>>,
     V |-> <<>>, K |-> <<>>]

search(queryVector, options) ==
    LET t == SearchCall(queryVector, options)
        limit == Limit(options)
    IN \/ searchGuard(queryVector, limit, t)
       \/ /\ Precheck(queryVector) = "ok"
          /\ IF options.hybridSearch /\ options.queryText # <<>>
             THEN hybridSearchWithRRF(queryVector, options.queryText, limit,
                                      RrfK(options), t)
             ELSE vectorSearch(queryVector, limit, MinSimilarity(options),
                               "primary", t)

----------------------------------------------------------------------------
(* The state after construction *)

EntityAOld == Node(<<"a">>, "person", FALSE, 1, TRUE, << <<"a", "b">> >>, NULL)
EntityA == Node(<<"a">>, "person", TRUE, 2, TRUE, << <<"a", "b">>, <<"Test">> >>, NULL)
EntityB == Node(<<"test", "b">>, "doc", TRUE, 3, TRUE, << <<"b">> >>, NULL)

\* the graphs a run starts from: none, or some of the entities above; an old
\* version of an entity shares its name
InitialGraphs ==
    {<<>>, <<EntityAOld, EntityA>>, <<EntityAOld, EntityA, EntityB>>}

\* the ids addVector and removeVector are called with
Ids == {<<"a">>, <<"test", "b">>, <<"c">>}

NoIndex == [exists |-> FALSE, dims |-> 0]
Index(d) == [exists |-> TRUE, dims |-> d]

Dimensions == 2..MaxDim

Idle == [pc |-> "idle"]
Exited == [pc |-> "exited"]

\* last holds the outcome of the latest call until its caller has taken it;
\* the caller makes one call at a time
NoCall == [op |-> "none"]

Init ==
    /\ initialized = FALSE
    /\ dimensions \in Dimensions
    /\ index \in {NoIndex} \cup {Index(d) : d \in Dimensions}
    /\ \E g \in InitialGraphs : \E embedded \in BOOLEAN :
          nodes = [i \in 1..Len(g) |->
                     [g[i] EXCEPT !.emb = IF embedded /\ index.exists
                                          THEN Vec(index.dims, "1") ELSE NULL]]
    /\ last = NoCall
    /\ rx = Idle
    /\ mg = Idle
    /\ mm = Idle

----------------------------------------------------------------------------
(* Neo4jVectorStore: initialize, addVector, removeVector, search *)

\* schemaManager.createVectorIndex(indexName, label, 'embedding', dimensions, fn)
createVectorIndex(d) == Index(d)

initialize ==
    /\ \/ \* vectorIndexExists or createVectorIndex rejects: rethrown
          /\ last' = [op |-> "initialize", outcome |-> "error", created |-> FALSE]
          /\ UNCHANGED <<initialized, index>>
       \/ /\ initialized' = TRUE
          /\ index' = IF ~index.exists THEN createVectorIndex(dimensions) ELSE index
          /\ last' = [op |-> "initialize", outcome |-> "ok",
                      created |-> ~index.exists]
    /\ UNCHANGED <<dimensions, nodes, rx, mg, mm>>

\* MERGE (e:Entity {name: $id}) SET e.embedding = $vector
MergeEmbedding(id, vector) ==
    IF \E i \in NodeIds : nodes[i].name = id
    THEN [i \in NodeIds |-> IF nodes[i].name = id
                            THEN [nodes[i] EXCEPT !.emb = vector] ELSE nodes[i]]
    ELSE Append(nodes, [MergedNode(id) EXCEPT !.emb = vector])

\* a check that lets a shorter vector through
AcceptsShorter(vector) == Len(vector) <= dimensions

\* if (vector.length !== this.dimensions) throw
AddVectorAccepts(vector) == Len(vector) = dimensions

AddVectorCall(id, vector) ==
    [op |-> "addVector", id |-> id, vector |-> vector, outcome |-> "pending",
     error |-> "none", sessions |-> 0, closed |-> 0, before |-> nodes]

addVector(id, vector) ==
    LET t == AddVectorCall(id, vector)
    IN /\ \/ /\ ~initialized
             /\ last' = [t EXCEPT !.outcome = "error", !.error = "notInitialized"]
             /\ UNCHANGED nodes
          \/ /\ initialized
             /\ ~AddVectorAccepts(vector)
             /\ last' = [t EXCEPT !.outcome = "error", !.error = "dimension"]
             /\ UNCHANGED nodes
          \/ /\ initialized
             /\ AddVectorAccepts(vector)
             /\ \/ \* getSession rejects
                   /\ last' = [t EXCEPT !.outcome = "error", !.error = "db"]
                   /\ UNCHANGED nodes
                \/ \* tx.run or tx.commit rejects: rolled back, and the
                   \* session closed in finally
                   /\ last' = [t EXCEPT !.outcome = "error", !.error = "db",
                                        !.sessions = 1, !.closed = 1]
                   /\ UNCHANGED nodes
                \/ /\ Len(MergeEmbedding(id, vector)) <= MaxNodes
                   /\ nodes' = MergeEmbedding(id, vector)
                   /\ last' = [t EXCEPT !.outcome = "ok", !.sessions = 1,
                                        !.closed = 1]
       /\ UNCHANGED <<initialized, dimensions, index, rx, mg, mm>>

\* MATCH (e:Entity {name: $id}) REMOVE e.embedding
RemoveEmbedding(id) ==
    [i \in NodeIds |-> IF nodes[i].name = id
                       THEN [nodes[i] EXCEPT !.emb = NULL] ELSE nodes[i]]

\* sessions is the number of sessions the call opened and closed the number
\* it closed
RemoveVectorCall(id, outcome, error, sessions, closed) ==
    [op |-> "removeVector", id |-> id, outcome |-> outcome, error |-> error,
     sessions |-> sessions, closed |-> closed]

removeVector(id) ==
    /\ \/ /\ ~initialized
          /\ last' = RemoveVectorCall(id, "error", "notInitialized", 0, 0)
          /\ UNCHANGED nodes
       \/ /\ initialized
          /\ \/ \* getSession rejects
                /\ last' = RemoveVectorCall(id, "error", "db", 0, 0)
                /\ UNCHANGED nodes
             \/ \* session.run rejects: the catch logs and rethrows, and
                \* session.close(), which follows the query in the try, is
                \* not reached
                /\ last' = RemoveVectorCall(id, "error", "db", 1, 0)
                /\ UNCHANGED nodes
             \/ /\ nodes' = RemoveEmbedding(id)
                /\ last' = RemoveVectorCall(id, "ok", "none", 1, 1)
    /\ UNCHANGED <<initialized, dimensions, index, rx, mg, mm>>

\* the options search is called with: pure-vector ones (limit, minSimilarity)
\* and hybrid ones (limit, queryText, rrfK)
QueryTexts == {<<"a">>, <<"b">>}

Options(given, limit, minSimilarity, hybridSearch, queryText, rrfK) ==
    [given |-> given, limit |-> limit, minSimilarity |-> minSimilarity,
     hybridSearch |-> hybridSearch, queryText |-> queryText, rrfK |-> rrfK]

PureOptions ==
    UNION {{Options({}, 0, 0, FALSE, <<>>, 0),
            Options({"limit"}, l, 0, FALSE, <<>>, 0),
            Options({"limit", "minSimilarity"}, l, 60, FALSE, <<>>, 0)} :
           l \in 1..MaxLimit}

HybridOptions ==
    UNION {{Options({"limit"}, l, 0, TRUE, text, 0),
            Options({"limit", "rrfK"}, l, 0, TRUE, text, 1)} :
           l \in 1..MaxLimit, text \in QueryTexts}
        \cup {Options({"limit"}, 1, 0, TRUE, <<>>, 0)}

SearchOptions == PureOptions \cup HybridOptions

\* the options every query vector is tried with
ProbeOptions ==
    {Options({}, 0, 0, FALSE, <<>>, 0), Options({"limit"}, 1, 0, TRUE, <<"a">>, 0)}

\* the calls of search: every query vector with the probe options, the
\* normal vectors of every length with every option
SearchInputs ==
    (QueryVectors \X ProbeOptions)
        \cup ({Vec(n, "1") : n \in 1..MaxDim} \X SearchOptions)

Search ==
    /\ last = NoCall
    /\ \E input \in SearchInputs : search(input[1], input[2])
    /\ UNCHANGED <<initialized, dimensions, index, nodes, rx, mg, mm>>

Initialize == last = NoCall /\ initialize

AddVector ==
    /\ last = NoCall
    /\ \E id \in Ids : \E vector \in StoredVectors : addVector(id, vector)

RemoveVector == last = NoCall /\ \E id \in Ids : removeVector(id)

\* the caller takes the outcome of its call
Return ==
    /\ last # NoCall
    /\ last' = NoCall
    /\ UNCHANGED <<initialized, dimensions, index, nodes, rx, mg, mm>>

Next == Initialize \/ AddVector \/ RemoveVector \/ Search \/ Return

Spec == Init /\ [][Next]_vars

----------------------------------------------------------------------------
(* The embedding writers beside the store: Neo4jReindexManager's           *)
(* reindexEmbeddings and the VoyageMigration script, each a process of its *)
(* own on the same database.  rx and mg are their positions; each is a     *)
(* command-line process that runs once and exits.                          *)

\* an embedding service: the dimensions it is configured with (getModelInfo)
\* and whether its model takes them as outputDimension (voyage-3*); any other
\* model answers with vectors of its native length
Service(dims, voyage3, native) ==
    [dimensions |-> dims, voyage3 |-> voyage3, native |-> native]

Services ==
    {Service(d, TRUE, d) : d \in Dimensions}
        \cup {Service(d, FALSE, MaxDim) : d \in Dimensions}

\* the vector client.embed answers with
generateEmbedding(svc) ==
    Vec(IF svc.voyage3 THEN svc.dimensions ELSE svc.native, "1")

\* MATCH (e:Entity {name: $name}) SET e.embedding = $embedding,
\* e.embeddingModel = $model, e.embeddingDimensions = $dimensions (those of
\* embeddingService.getModelInfo()), e.embeddingUpdated = timestamp()
storeEmbedding(entityName, embedding, embeddingService) ==
    [i \in NodeIds |->
        IF nodes[i].name = entityName
        THEN [nodes[i] EXCEPT !.emb = embedding,
                              !.embeddingDimensions = embeddingService.dimensions]
        ELSE nodes[i]]

\* const batchSize = options.batchSize || 10
DefaultBatchSize == 10

\* const batchDelay = options.batchDelay || 1000
DefaultBatchDelay == 1000

\* the largest batch size validateOptions accepts
BatchSizeLimit == 1000

\* the values --batch-size and --batch-delay are tried with: parseInt gives any
\* integer, and 0 is falsy, as an option not given is
BatchSizes == {-1, 0, 1, 2, DefaultBatchSize, BatchSizeLimit + 1}
BatchDelays == {-1, 0, 5, DefaultBatchDelay}

\* an optional option: whether it is given, and its value
Option(given, value) == [given |-> given, value |-> value]
NotGiven == Option(FALSE, <<>>)

\* the forms of options.customQuery, as words: none, the empty string, a query
\* with the word RETURN, a query with the word in lower case only
CustomQueries ==
    {NotGiven, Option(TRUE, <<>>), Option(TRUE, <<"MATCH", "RETURN">>),
     Option(TRUE, <<"MATCH", "return">>)}

\* customQuery.includes('RETURN')
IncludesReturn(customQuery) ==
    \E i \in 1..Len(customQuery) : customQuery[i] = "RETURN"

\* the forms of options.entityTypes: none, an empty list, a list of one type
EntityTypeLists == {NotGiven, Option(TRUE, <<>>), Option(TRUE, <<"person">>)}

\* the options of the reindex command line: force, onlyMissing, dryRun, limit
\* (0: none given), batchSize, batchDelay, and the onProgress callback that
\* reindexCommand always supplies
ReindexOptions ==
    [force : BOOLEAN, onlyMissing : BOOLEAN, dryRun : BOOLEAN, limit : -1..1,
     batchSize : BatchSizes, batchDelay : BatchDelays, onProgress : {TRUE},
     customQuery : {NotGiven}, entityTypes : {NotGiven},
     namePattern : {NotGiven}]

\* the command line without --batch-size and --batch-delay
PlainReindexOptions ==
    {o \in ReindexOptions : /\ o.limit >= 0
                            /\ o.batchSize = DefaultBatchSize
                            /\ o.batchDelay = DefaultBatchDelay}

\* validateOptions: one error per violated rule, a falsy option is not tested
validateOptions(o) ==
    LET errors ==
          (IF o.batchSize # 0 /\ (o.batchSize < 1 \/ o.batchSize > BatchSizeLimit)
           THEN <<"batchSize">> ELSE <<>>)
          \o (IF o.limit # 0 /\ o.limit < 0 THEN <<"limit">> ELSE <<>>)
          \o (IF o.batchDelay # 0 /\ o.batchDelay < 0
              THEN <<"batchDelay">> ELSE <<>>)
          \o (IF o.customQuery.given /\ o.customQuery.value # <<>>
                 /\ ~IncludesReturn(o.customQuery.value)
              THEN <<"customQuery">> ELSE <<>>)
          \o (IF o.entityTypes.given /\ Len(o.entityTypes.value) = 0
              THEN <<"entityTypes">> ELSE <<>>)
    IN [isValid |-> Len(errors) = 0, errors |-> errors]

\* the options validateOptions is tried with: the numbers of the command line,
\* and every form of customQuery and entityTypes
ValidatedOptions ==
    [force : {FALSE}, onlyMissing : {FALSE}, dryRun : {FALSE}, limit : -1..1,
     batchSize : BatchSizes, batchDelay : BatchDelays, onProgress : {TRUE},
     customQuery : CustomQueries, entityTypes : EntityTypeLists,
     namePattern : {NotGiven}]

\* name =~ pattern: the whole name matches the pattern, whose part ".*"
\* matches any run of the name's parts
RECURSIVE RegexMatches(_, _)
RegexMatches(name, pattern) ==
    IF pattern = <<>> THEN name = <<>>
    ELSE IF Head(pattern) = ".*"
    THEN \/ RegexMatches(name, Tail(pattern))
         \/ name # <<>> /\ RegexMatches(Tail(name), pattern)
    ELSE /\ name # <<>>
         /\ Head(name) = Head(pattern)
         /\ RegexMatches(Tail(name), Tail(pattern))

\* the forms of options.namePattern: none, a literal name, a prefix
NamePatterns == {NotGiven, Option(TRUE, <<"a">>), Option(TRUE, <<"test", ".*">>)}

\* WHERE e.validTo = <max> [AND e.entityType IN $entityTypes]
\* [AND e.name =~ $namePattern] [AND e.embedding IS NULL]
ReindexCandidates(o) ==
    {i \in NodeIds :
       /\ nodes[i].live
       /\ o.entityTypes.given /\ Len(o.entityTypes.value) > 0
             => \E k \in 1..Len(o.entityTypes.value) :
                   o.entityTypes.value[k] = nodes[i].etype
       /\ o.namePattern.given /\ o.namePattern.value # <<>>
             => RegexMatches(nodes[i].name, o.namePattern.value)
       /\ (o.onlyMissing \/ ~o.force) => ~HasEmbedding(nodes[i])}

\* ... RETURN e.name ... ORDER BY e.createdAt DESC [LIMIT n]
getEntitiesToReindex(o) ==
    LET key == [i \in NodeIds |-> RecencyKey(nodes[i])]
        k == IF o.limit # 0 THEN o.limit ELSE Len(nodes)
    IN {[j \in 1..Len(s) |-> nodes[s[j]].name] :
          s \in TopK(ReindexCandidates(o), key, k)}

\* what reindexEmbeddings returns, with the options of the call, the calls
\* made of embeddingService.generateEmbedding, the progress events emitted and
\* the delays slept between batches
ReindexResult(outcome, o, total, run) ==
    [pc |-> "done", outcome |-> outcome, options |-> o, total |-> total,
     processed |-> run.processed, succeeded |-> run.succeeded,
     failed |-> run.failed, skipped |-> 0, errors |-> run.errors,
     calls |-> run.calls, events |-> run.events, sleeps |-> run.sleeps,
     handled |-> run.handled]

\* let processed = 0 ... const errors = [], the batch loop's i = 0 and the
\* position j in its batch; handled lists the entities in the order the loop
\* took them
NothingProcessed ==
    [processed |-> 0, succeeded |-> 0, failed |-> 0, errors |-> <<>>,
     calls |-> 0, events |-> <<>>, i |-> 0, j |-> 0, sleeps |-> <<>>,
     handled |-> <<>>]

\* a reindex that enters its batch loop on a dry run too
reindexEmbeddingsIgnoringDryRun(o, svc) ==
    /\ \E entities \in getEntitiesToReindex(o) :
          rx' = IF entities = <<>>
                THEN ReindexResult("ok", o, Len(entities), NothingProcessed)
                ELSE [pc |-> "run", options |-> o, entities |-> entities,
                      svc |-> svc] @@ NothingProcessed
    /\ UNCHANGED <<initialized, dimensions, index, nodes, last, mg, mm>>

\* reindexEmbeddings up to its batch loop
reindexEmbeddings(o, svc) ==
    /\ \/ \* getSession or session.run rejects in getEntitiesToReindex
          rx' = ReindexResult("error", o, 0, NothingProcessed)
       \/ \E entities \in getEntitiesToReindex(o) :
             rx' = IF entities = <<>> \/ o.dryRun
                   THEN ReindexResult("ok", o, Len(entities), NothingProcessed)
                   ELSE [pc |-> "run", options |-> o, entities |-> entities,
                         svc |-> svc] @@ NothingProcessed
    /\ UNCHANGED <<initialized, dimensions, index, nodes, last, mg, mm>>

\* a reindex started from a command line without --batch-size, --batch-delay
ReindexStart ==
    /\ rx.pc = "idle"
    /\ \E o \in PlainReindexOptions : \E svc \in Services :
          reindexEmbeddings(o, svc)

\* reindexCommand: invalid options end the process before reindexEmbeddings
reindexCommand ==
    /\ rx.pc = "idle"
    /\ \E o \in ReindexOptions : \E svc \in Services :
          IF validateOptions(o).isValid
          THEN reindexEmbeddings(o, svc)
          ELSE /\ rx' = ReindexResult("invalid", o, 0, NothingProcessed)
               /\ UNCHANGED <<initialized, dimensions, index, nodes, last, mg, mm>>

\* countCommand and reindexCommand up to the validation's result
ValidateOptions ==
    /\ rx.pc = "options"
    /\ rx' = [pc |-> "validated", options |-> rx.options,
              validation |-> validateOptions(rx.options)]
    /\ UNCHANGED <<initialized, dimensions, index, nodes, last, mg, mm>>

\* the process ends: process.exit(1) when invalid, the command otherwise
ValidateExit ==
    /\ rx.pc = "validated"
    /\ rx' = [pc |-> "exited", options |-> rx.options,
              code |-> IF rx.validation.isValid THEN 0 ELSE 1]
    /\ UNCHANGED <<initialized, dimensions, index, nodes, last, mg, mm>>

InitValidate ==
    /\ initialized = FALSE
    /\ dimensions = MaxDim
    /\ index = NoIndex
    /\ nodes = <<>>
    /\ last = NoCall
    /\ rx \in [pc : {"options"}, options : ValidatedOptions]
    /\ mg = Idle
    /\ mm = Idle

NextValidate == ValidateOptions \/ ValidateExit

SpecValidate == InitValidate /\ [][NextValidate]_vars

\* options.batchSize || 10
BatchSizeOf(o) == IF o.batchSize # 0 THEN o.batchSize ELSE DefaultBatchSize

\* options.batchDelay || 1000
BatchDelayOf(o) == IF o.batchDelay # 0 THEN o.batchDelay ELSE DefaultBatchDelay

\* Math.ceil(total / batchSize), for a positive batch size
TotalBatches(total, batchSize) == (total + batchSize - 1) \div batchSize

\* progress reported once per batch instead of once per entity
ProgressEventsPerBatch(run, o) ==
    IF o.onProgress
       /\ run.processed = Min(rx.i + BatchSizeOf(o), Len(rx.entities))
    THEN Append(run.events,
                [total |-> Len(rx.entities), processed |-> run.processed,
                 succeeded |-> run.succeeded, failed |-> run.failed,
                 skipped |-> 0,
                 percentage |-> Rat(run.processed * 100, Len(rx.entities)),
                 currentBatch |-> (rx.i \div BatchSizeOf(o)) + 1,
                 totalBatches |-> TotalBatches(Len(rx.entities), BatchSizeOf(o))])
    ELSE run.events

\* options.onProgress(progress), when supplied
ProgressEvents(run, o) ==
    IF o.onProgress
    THEN Append(run.events,
                [total |-> Len(rx.entities), processed |-> run.processed,
                 succeeded |-> run.succeeded, failed |-> run.failed,
                 skipped |-> 0,
                 percentage |-> Rat(run.processed * 100, Len(rx.entities)),
                 currentBatch |-> (rx.i \div BatchSizeOf(o)) + 1,
                 totalBatches |-> TotalBatches(Len(rx.entities), BatchSizeOf(o))])
    ELSE run.events

\* array.slice(start, end): a negative index counts from the end, and the
\* slice is empty when it starts at or after its end
SliceIndex(array, at) ==
    IF at < 0 THEN (IF Len(array) + at < 0 THEN 0 ELSE Len(array) + at)
    ELSE Min(at, Len(array))
Slice(array, start, end) ==
    SubSeq(array, SliceIndex(array, start) + 1, SliceIndex(array, end))

\* const batch = entities.slice(i, i + batchSize)
CurrentBatch ==
    Slice(rx.entities, rx.i, rx.i + BatchSizeOf(rx.options))

\* the delay after a batch: if (i + batchSize < entities.length && batchDelay > 0)
BatchSleeps(run, o) ==
    IF /\ run.j = Len(CurrentBatch)
       /\ rx.i + BatchSizeOf(o) < Len(rx.entities)
       /\ BatchDelayOf(o) > 0
    THEN Append(run.sleeps, BatchDelayOf(o))
    ELSE run.sleeps

\* the loop's step after one entity: processed++, the progress event, after
\* the last entity of a batch the delay and i += batchSize, and the return
\* after the last batch
ReindexProcessed(succeeded, failed, errors) ==
    LET batchSize == BatchSizeOf(rx.options)
        run == [processed |-> rx.processed + 1,
                succeeded |-> rx.succeeded + succeeded,
                failed |-> rx.failed + failed,
                errors |-> rx.errors \o errors,
                calls |-> rx.calls + 1,
                events |-> rx.events,
                i |-> rx.i,
                j |-> rx.j + 1,
                sleeps |-> rx.sleeps,
                handled |-> Append(rx.handled, CurrentBatch[rx.j + 1])]
        reported == [run EXCEPT !.events = ProgressEvents(run, rx.options)]
        batchEnds == reported.j = Len(CurrentBatch)
        looped == [reported EXCEPT
                     !.sleeps = BatchSleeps(reported, rx.options),
                     !.i = IF batchEnds THEN rx.i + batchSize ELSE rx.i,
                     !.j = IF batchEnds THEN 0 ELSE reported.j]
    IN IF looped.i >= Len(rx.entities)
       THEN ReindexResult("ok", rx.options, Len(rx.entities), looped)
       ELSE [pc |-> "run", options |-> rx.options, entities |-> rx.entities,
             svc |-> rx.svc] @@ looped

\* a batch loop without the try/catch: the first failure ends the run
ReindexEntityAborting ==
    /\ rx.pc = "run"
    /\ \/ /\ rx' = ReindexResult("error", rx.options, Len(rx.entities), rx)
          /\ UNCHANGED nodes
       \/ /\ nodes' = storeEmbedding(rx.entities[rx.processed + 1],
                                     generateEmbedding(rx.svc), rx.svc)
          /\ rx' = ReindexProcessed(1, 0, <<>>)
    /\ UNCHANGED <<initialized, dimensions, index, last, mg, mm>>

\* one entity of the batch loop: generateEmbedding, storeEmbedding, try/catch
ReindexEntity ==
    /\ rx.pc = "run"
    /\ rx.j < Len(CurrentBatch)
    /\ LET entity == CurrentBatch[rx.j + 1]
       IN \/ \* generateEmbedding or storeEmbedding rejects: recorded, not rethrown
             /\ \E error \in {"generateEmbedding", "storeEmbedding"} :
                   rx' = ReindexProcessed(0, 1,
                             <<[entityName |-> entity, error |-> error]>>)
             /\ UNCHANGED nodes
          \/ /\ nodes' = storeEmbedding(entity, generateEmbedding(rx.svc), rx.svc)
             /\ rx' = ReindexProcessed(1, 0, <<>>)
    /\ UNCHANGED <<initialized, dimensions, index, last, mg, mm>>

ReindexReturn ==
    /\ rx.pc = "done"
    /\ rx' = Exited
    /\ UNCHANGED <<initialized, dimensions, index, nodes, last, mg, mm>>

\* migration options: --dry-run, --batch-size=N, --no-recreate-index
MaxBatch == 2
MigrationOptions ==
    [dryRun : BOOLEAN, batchSize : 1..MaxBatch, recreateIndex : BOOLEAN]

\* ORDER BY e.name over the names the graph can hold
NamesInOrder == << <<"a">>, <<"c">>, <<"test", "b">> >>

RECURSIVE Flatten(_)
Flatten(ss) == IF ss = <<>> THEN <<>> ELSE Head(ss) \o Flatten(Tail(ss))

\* MATCH (e:Entity) RETURN e.name ORDER BY e.name: one row for every node
fetchAllEntities ==
    Flatten([n \in 1..Len(NamesInOrder) |->
               SelectSeq([i \in NodeIds |-> nodes[i].name],
                         LAMBDA name : name = NamesInOrder[n])])

MigrationEnd(outcome) ==
    [pc |-> "done", outcome |-> outcome]

\* the constructor and run up to "Recreate index if requested"
MigrationStart ==
    /\ mg.pc = "idle"
    /\ \E o \in MigrationOptions : \E svc \in Services :
          \/ \* verifyConnectivity or fetchAllEntities rejects: rethrown
             mg' = MigrationEnd("error")
          \/ mg' = IF fetchAllEntities = <<>> THEN MigrationEnd("ok")
                   ELSE [pc |-> IF o.recreateIndex /\ ~o.dryRun
                                THEN "drop" ELSE "migrate",
                         entities |-> fetchAllEntities, svc |-> svc,
                         dryRun |-> o.dryRun, batchSize |-> o.batchSize,
                         i |-> 0]
    /\ UNCHANGED <<initialized, dimensions, index, nodes, last, rx, mm>>

\* DROP INDEX ... IF EXISTS; a failure is logged and swallowed
dropVectorIndex ==
    /\ mg.pc = "drop"
    /\ index' \in {NoIndex, index}
    /\ mg' = [mg EXCEPT !.pc = "create"]
    /\ UNCHANGED <<initialized, dimensions, nodes, last, rx, mm>>

\* CREATE VECTOR INDEX ... IF NOT EXISTS with newDimensions
migrationCreateVectorIndex ==
    /\ mg.pc = "create"
    /\ \/ \* session.run rejects: run rethrows
          /\ mg' = MigrationEnd("error")
          /\ UNCHANGED index
       \/ /\ index' = IF index.exists THEN index
                      ELSE createVectorIndex(mg.svc.dimensions)
          /\ mg' = [mg EXCEPT !.pc = "migrate"]
    /\ UNCHANGED <<initialized, dimensions, nodes, last, rx, mm>>

\* the graph after the first j writes of the batch
RECURSIVE BatchWritten(_, _, _)
BatchWritten(g, batch, embedding) ==
    IF batch = <<>> THEN g
    ELSE BatchWritten([i \in 1..Len(g) |->
                         IF g[i].name = Head(batch)
                         THEN [g[i] EXCEPT !.emb = embedding] ELSE g[i]],
                      Tail(batch), embedding)

\* the for loop's step: i += batchSize, and the return after the last batch
\* (processed and failed are only logged)
MigrationAdvanced ==
    IF mg.i + mg.batchSize >= Len(mg.entities) THEN MigrationEnd("ok")
    ELSE [mg EXCEPT !.i = @ + mg.batchSize]

\* one batch of migrateEntities
migrateEntities ==
    /\ mg.pc = "migrate"
    /\ LET batch == SubSeq(mg.entities, mg.i + 1,
                           Min(mg.i + mg.batchSize, Len(mg.entities)))
       IN \/ \* generateEmbeddings rejects: the batch is counted as failed
             /\ mg' = MigrationAdvanced
             /\ UNCHANGED nodes
          \/ /\ mg.dryRun
             /\ mg' = MigrationAdvanced
             /\ UNCHANGED nodes
          \/ /\ ~mg.dryRun
             /\ \E j \in 0..Len(batch) :
                   \* the first j writes succeed; write j + 1, if any, rejects
                   /\ nodes' = BatchWritten(nodes, SubSeq(batch, 1, j),
                                            generateEmbedding(mg.svc))
                   /\ mg' = MigrationAdvanced
    /\ UNCHANGED <<initialized, dimensions, index, last, rx, mm>>

MigrationReturn ==
    /\ mg.pc = "done"
    /\ mg' = Exited
    /\ UNCHANGED <<initialized, dimensions, index, nodes, last, rx, mm>>

\* the operator runs one maintenance command at a time, beside the store
Quiet(p) == p.pc \in {"idle", "exited"}
Reindex == Quiet(mg) /\ ReindexStart
Migration == Quiet(rx) /\ MigrationStart

NextWriters ==
    \/ Initialize \/ AddVector \/ Return
    \/ Reindex \/ ReindexEntity \/ ReindexReturn
    \/ Migration \/ dropVectorIndex \/ migrationCreateVectorIndex
    \/ migrateEntities \/ MigrationReturn

SpecWriters == Init /\ [][NextWriters]_vars

\* a reindex command run alone, on a graph whose entities have no embedding or
\* one of some length
\* the options a selection is tried with: the filters, and a limit that is
\* given (as the number 0, 1 or 2) or not given, 0 being falsy like none
SelectOptions ==
    [force : BOOLEAN, onlyMissing : BOOLEAN, dryRun : {FALSE}, limit : 0..2,
     batchSize : {DefaultBatchSize}, batchDelay : {DefaultBatchDelay},
     onProgress : {TRUE}, customQuery : {NotGiven},
     entityTypes : {NotGiven, Option(TRUE, <<"person">>), Option(TRUE, <<"doc">>)},
     namePattern : NamePatterns]

\* getEntitiesToReindex without a custom query, on its own
GetEntitiesToReindex ==
    /\ rx.pc = "select"
    /\ \/ rx' = [pc |-> "rejected", options |-> rx.options,
                  limitGiven |-> rx.limitGiven]
       \/ \E entities \in getEntitiesToReindex(rx.options) :
             rx' = [pc |-> "selected", options |-> rx.options,
                    limitGiven |-> rx.limitGiven, entities |-> entities]
    /\ UNCHANGED <<initialized, dimensions, index, nodes, last, mg, mm>>

InitSelect ==
    /\ initialized = FALSE
    /\ dimensions = MaxDim
    /\ index = Index(dimensions)
    /\ \E g \in InitialGraphs :
          \E embs \in [1..Len(g) -> {NULL, Vec(dimensions, "1")}] :
             nodes = [i \in 1..Len(g) |-> [g[i] EXCEPT !.emb = embs[i]]]
    /\ last = NoCall
    /\ \E o \in SelectOptions : \E limitGiven \in BOOLEAN :
          /\ o.limit # 0 => limitGiven
          /\ rx = [pc |-> "select", options |-> o, limitGiven |-> limitGiven]
    /\ mg = Idle
    /\ mm = Idle

NextSelect == GetEntitiesToReindex

SpecSelect == InitSelect /\ [][NextSelect]_vars

\* the options reindexEmbeddings is called with directly, unvalidated
DirectReindexOptions ==
    {o \in ReindexOptions : /\ ~o.force /\ ~o.onlyMissing /\ ~o.dryRun
                            /\ o.limit = 0
                            /\ o.batchDelay \in {0, DefaultBatchDelay}}

\* a caller other than the command line calls reindexEmbeddings, which does
\* not validate its options
ReindexDirect ==
    /\ rx.pc = "idle"
    /\ \E o \in DirectReindexOptions : \E svc \in Services :
          reindexEmbeddings(o, svc)

\* the most iterations over an empty batch that are followed
MaxEmptyBatches == 3

\* an iteration of the batch loop whose slice is empty: no entity, the delay,
\* and i += batchSize
ReindexEmptyBatch ==
    /\ rx.pc = "run"
    /\ Len(CurrentBatch) = 0
    /\ rx.i > 0 - MaxEmptyBatches
    /\ LET batchSize == BatchSizeOf(rx.options)
           looped == [rx EXCEPT !.sleeps = BatchSleeps(rx, rx.options),
                                !.i = rx.i + batchSize]
       IN rx' = IF looped.i >= Len(rx.entities)
                THEN ReindexResult("ok", rx.options, Len(rx.entities), looped)
                ELSE looped
    /\ UNCHANGED <<initialized, dimensions, index, nodes, last, mg, mm>>

InitReindex ==
    /\ initialized = FALSE
    /\ dimensions = MaxDim
    /\ index = Index(dimensions)
    /\ \E g \in InitialGraphs :
          \E embs \in [1..Len(g) -> {NULL} \cup {Vec(d, "1") : d \in Dimensions}] :
             nodes = [i \in 1..Len(g) |-> [g[i] EXCEPT !.emb = embs[i]]]
    /\ last = NoCall
    /\ rx = Idle
    /\ mg = Idle
    /\ mm = Idle

NextReindex == reindexCommand \/ ReindexEntity \/ ReindexReturn

SpecReindex == InitReindex /\ [][NextReindex]_vars

NextReindexDirect ==
    ReindexDirect \/ ReindexEntity \/ ReindexEmptyBatch \/ ReindexReturn

\* the batch loop keeps running: await resumes, the process is not stopped
SpecReindexDirect ==
    InitReindex /\ [][NextReindexDirect]_vars /\ WF_vars(NextReindexDirect)

----------------------------------------------------------------------------
(* Neo4jMigrationManager.  mm is the caller of the manager: its latest call *)
(* with the graph before and after it, and how far a round trip of backup, *)
(* clear and restore has come.  A call runs alone: nothing else writes     *)
(* between its queries.                                                    *)

\* LIMIT 1000 and LIMIT 100 of analyzeEmbeddingState, scaled to the graph
MismatchCap == 2
MissingCap == 1

\* WHERE e.validTo = 9223372036854775807
LiveIn(g) == {i \in 1..Len(g) : g[i].live}
\* every Entity node, with an embedding or without
EveryEntityIn(g) == 1..Len(g)

EmbeddedIn(g) == {i \in 1..Len(g) : g[i].emb # NULL}
\* the mismatched embeddings of the live entities only
MismatchedAmongLive(g, d) ==
    {i \in 1..Len(g) : g[i].live /\ g[i].emb # NULL /\ Len(g[i].emb) # d}

MismatchedIn(g, d) == {i \in EmbeddedIn(g) : Len(g[i].emb) # d}
ShadowedIn(g) == {i \in 1..Len(g) : g[i].backup # NULL}

\* a histogram over every Entity node, historical versions included
DimensionCountsOfAll(g) ==
    LET dims == {Len(g[i].emb) : i \in EmbeddedIn(g)}
    IN [d \in dims |-> Cardinality({i \in EmbeddedIn(g) : Len(g[i].emb) = d})]

\* WITH size(e.embedding) as dims RETURN dims, count(*)
DimensionCounts(g) ==
    LET dims == {Len(g[i].emb) : i \in LiveIn(g) \cap EmbeddedIn(g)}
    IN [d \in dims |->
          Cardinality({i \in LiveIn(g) \cap EmbeddedIn(g) : Len(g[i].emb) = d})]

\* MATCH ... RETURN ... LIMIT cap: any cap rows, in any order
LimitRows(S, cap) == Arrangements(S, Min(cap, Cardinality(S)))

DimensionMismatch(g, i, expectedDimensions) ==
    [entityName |-> g[i].name, entityType |-> g[i].etype,
     currentDimensions |-> Len(g[i].emb), expectedDimensions |-> expectedDimensions,
     hasEmbedding |-> g[i].emb # NULL]

\* a status that overlooks the entities without an embedding
StatusOfEmbeddedOnly(entitiesWithEmbeddings, mismatches) ==
    IF entitiesWithEmbeddings = 0 THEN "no-embeddings"
    ELSE IF \E i \in 1..Len(mismatches) : mismatches[i].hasEmbedding
    THEN "inconsistent"
    ELSE "consistent"

\* Determine consistency status
ConsistencyStatus(entitiesWithEmbeddings, mismatches) ==
    IF entitiesWithEmbeddings = 0 THEN "no-embeddings"
    ELSE IF Len(mismatches) > 0 THEN "inconsistent"
    ELSE "consistent"

\* the summaries analyzeEmbeddingState(expectedDimensions) may return on g
EmbeddingStateSummaries(g, expectedDimensions) ==
    LET withEmbeddings == Cardinality(LiveIn(g) \cap EmbeddedIn(g))
        row(i) == DimensionMismatch(g, i, expectedDimensions)
    IN {[totalEntities |-> Cardinality(LiveIn(g)),
         entitiesWithEmbeddings |-> withEmbeddings,
         entitiesWithoutEmbeddings |-> Cardinality(LiveIn(g)) - withEmbeddings,
         dimensionCounts |-> DimensionCounts(g),
         mismatches |-> SeqMap(row, wrong \o missing),
         consistencyStatus |->
             ConsistencyStatus(withEmbeddings, SeqMap(row, wrong \o missing))] :
        wrong \in LimitRows(LiveIn(g) \cap MismatchedIn(g, expectedDimensions),
                            MismatchCap),
        missing \in LimitRows(LiveIn(g) \ EmbeddedIn(g), MissingCap)}

\* REMOVE e.embedding on the nodes of S
EmbeddingsRemoved(g, S) ==
    [i \in 1..Len(g) |-> IF i \in S THEN [g[i] EXCEPT !.emb = NULL] ELSE g[i]]

\* SET e.embedding_backup = e.embedding on the nodes that have an embedding
BackedUp(g) ==
    [i \in 1..Len(g) |-> IF g[i].emb # NULL THEN [g[i] EXCEPT !.backup = g[i].emb]
                         ELSE g[i]]

\* a restore that leaves the shadow field in place
RestoredKeepingShadow(g) ==
    [i \in 1..Len(g) |-> IF g[i].backup # NULL
                         THEN [g[i] EXCEPT !.emb = g[i].backup]
                         ELSE g[i]]

\* SET e.embedding = e.embedding_backup REMOVE e.embedding_backup
Restored(g) ==
    [i \in 1..Len(g) |-> IF g[i].backup # NULL
                         THEN [g[i] EXCEPT !.emb = g[i].backup, !.backup = NULL]
                         ELSE g[i]]

\* REMOVE e.embedding_backup, e.embedding_backup_timestamp
BackupsRemoved(g) ==
    [i \in 1..Len(g) |-> [g[i] EXCEPT !.backup = NULL]]

\* who calls the manager: a command of the embedding-migration CLI, or none
NoCommand == [name |-> "none"]

\* a round trip: backupEmbeddings on a graph without shadow fields (stage 1,
\* origin the graph before it), then clearAllEmbeddings (2), then
\* restoreEmbeddings (3), each the next call after the other and each
\* completing; any other call ends it
NoRoundTrip == [stage |-> 0, origin |-> <<>>]

RoundTripAfter(op, args, outcome, before) ==
    IF outcome = "ok" /\ op = "backupEmbeddings" /\ ShadowedIn(before) = {}
    THEN [stage |-> 1, origin |-> before]
    ELSE IF /\ outcome = "ok" /\ op = "clearAllEmbeddings" /\ ~args.dryRun
            /\ mm.roundTrip.stage = 1
    THEN [mm.roundTrip EXCEPT !.stage = 2]
    ELSE IF outcome = "ok" /\ op = "restoreEmbeddings" /\ mm.roundTrip.stage = 2
    THEN [mm.roundTrip EXCEPT !.stage = 3]
    ELSE NoRoundTrip

\* whether a call repeats the call before it: the same operation with the
\* same arguments, no dry run, both completing; first is what the first of
\* the two returned
NoRepeat == [is |-> FALSE, first |-> 0]

RepeatAfter(op, args, outcome) ==
    IF /\ outcome = "ok"
       /\ mm.call.op = op
       /\ mm.call.outcome = "ok"
       /\ mm.call.args = args
       /\ op \in {"clearAllEmbeddings", "clearMismatchedEmbeddings"} => ~args.dryRun
       /\ op \notin {"analyzeEmbeddingState", "validateVectorIndex"}
    THEN [is |-> TRUE, first |-> IF mm.repeat.is THEN mm.repeat.first
                                 ELSE mm.call.result]
    ELSE NoRepeat

NoCalls == [pc |-> "idle", cmd |-> NoCommand, call |-> NoCall,
            roundTrip |-> NoRoundTrip, repeat |-> NoRepeat]

Call(op, by, args, outcome, result, before, after) ==
    [op |-> op, by |-> by, args |-> args, outcome |-> outcome, result |-> result,
     before |-> before, after |-> after]

\* a call made by the command by: it ends with outcome and result, leaves the
\* graph as after and the command at pc
Called(op, by, args, outcome, result, after, pc) ==
    /\ nodes' = after
    /\ mm' = [pc |-> pc, cmd |-> IF pc = "idle" THEN NoCommand ELSE by,
              call |-> Call(op, by, args, outcome, result, nodes, after),
              roundTrip |-> RoundTripAfter(op, args, outcome, nodes),
              repeat |-> RepeatAfter(op, args, outcome)]

\* the call rejects: a session or a query failed before any write, and the
\* command ends with it
Rejected(op, by, args) == Called(op, by, args, "error", 0, nodes, "idle")

analyzeEmbeddingState(expectedDimensions, by, pc) ==
    LET args == [expectedDimensions |-> expectedDimensions]
    IN \/ Rejected("analyzeEmbeddingState", by, args)
       \/ \E summary \in EmbeddingStateSummaries(nodes, expectedDimensions) :
             Called("analyzeEmbeddingState", by, args, "ok", summary, nodes, pc)

\* a clear that removes whatever dryRun says
clearEmbeddingsAlways(op, by, args, S, dryRun, pc) ==
    \/ Rejected(op, by, args)
    \/ Called(op, by, args, "ok", Cardinality(S), EmbeddingsRemoved(nodes, S), pc)

\* count, return early on 0 or dryRun, else REMOVE and return the count
clearEmbeddings(op, by, args, S, dryRun, pc) ==
    \/ Rejected(op, by, args)
    \/ /\ Cardinality(S) = 0 \/ dryRun
       /\ Called(op, by, args, "ok", Cardinality(S), nodes, pc)
    \/ /\ Cardinality(S) # 0 /\ ~dryRun
       /\ Called(op, by, args, "ok", Cardinality(S), EmbeddingsRemoved(nodes, S), pc)

clearMismatchedEmbeddings(expectedDimensions, dryRun, by, pc) ==
    clearEmbeddings("clearMismatchedEmbeddings", by,
                    [expectedDimensions |-> expectedDimensions, dryRun |-> dryRun],
                    MismatchedIn(nodes, expectedDimensions), dryRun, pc)

clearAllEmbeddings(dryRun, by, pc) ==
    clearEmbeddings("clearAllEmbeddings", by, [dryRun |-> dryRun],
                    EmbeddedIn(nodes), dryRun, pc)

backupEmbeddings(by, pc) ==
    \/ Rejected("backupEmbeddings", by, <<>>)
    \/ Called("backupEmbeddings", by, <<>>, "ok", Cardinality(EmbeddedIn(nodes)),
              BackedUp(nodes), pc)

restoreEmbeddings(by, pc) ==
    \/ Rejected("restoreEmbeddings", by, <<>>)
    \/ Called("restoreEmbeddings", by, <<>>, "ok", Cardinality(ShadowedIn(nodes)),
              Restored(nodes), pc)

cleanupBackups(by, pc) ==
    \/ Rejected("cleanupBackups", by, <<>>)
    \/ Called("cleanupBackups", by, <<>>, "ok", Cardinality(ShadowedIn(nodes)),
              BackupsRemoved(nodes), pc)

\* SHOW VECTOR INDEXES WHERE name = $indexName; an error is caught and
\* reported as an index that does not exist
IndexValidation(exists, isOnline, isValid) ==
    [exists |-> exists, isOnline |-> isOnline, isValid |-> isValid]

validateVectorIndex(expectedDimensions, by, pc) ==
    LET args == [expectedDimensions |-> expectedDimensions]
    IN \E result \in
          {IndexValidation(FALSE, FALSE, FALSE)}
              \cup (IF index.exists
                    THEN {IndexValidation(TRUE, isOnline,
                              isOnline /\ index.dims = expectedDimensions) :
                          isOnline \in BOOLEAN}
                    ELSE {}) :
          Called("validateVectorIndex", by, args, "ok", result, nodes, pc)

\* the manager's operations, called one at a time
AnalyzeEmbeddingState ==
    /\ mm.pc = "idle"
    /\ \E d \in Dimensions : analyzeEmbeddingState(d, NoCommand, "idle")
    /\ UNCHANGED <<initialized, dimensions, index, last, rx, mg>>

ClearMismatchedEmbeddings ==
    /\ mm.pc = "idle"
    /\ \E d \in Dimensions : \E dryRun \in BOOLEAN :
          clearMismatchedEmbeddings(d, dryRun, NoCommand, "idle")
    /\ UNCHANGED <<initialized, dimensions, index, last, rx, mg>>

ClearAllEmbeddings ==
    /\ mm.pc = "idle"
    /\ \E dryRun \in BOOLEAN : clearAllEmbeddings(dryRun, NoCommand, "idle")
    /\ UNCHANGED <<initialized, dimensions, index, last, rx, mg>>

BackupEmbeddings ==
    /\ mm.pc = "idle"
    /\ backupEmbeddings(NoCommand, "idle")
    /\ UNCHANGED <<initialized, dimensions, index, last, rx, mg>>

RestoreEmbeddings ==
    /\ mm.pc = "idle"
    /\ restoreEmbeddings(NoCommand, "idle")
    /\ UNCHANGED <<initialized, dimensions, index, last, rx, mg>>

CleanupBackups ==
    /\ mm.pc = "idle"
    /\ cleanupBackups(NoCommand, "idle")
    /\ UNCHANGED <<initialized, dimensions, index, last, rx, mg>>

ValidateVectorIndex ==
    /\ mm.pc = "idle"
    /\ \E d \in Dimensions : validateVectorIndex(d, NoCommand, "idle")
    /\ UNCHANGED <<initialized, dimensions, index, last, rx, mg>>

\* the embedding-migration command clear-all
ClearAllOptions(dryRun, skipBackup) ==
    [name |-> "clearAllCommand", dryRun |-> dryRun, skipBackup |-> skipBackup]

\* a command that clears without the backup
clearAllCommandWithoutBackup ==
    /\ mm.pc = "idle"
    /\ \E dryRun, skipBackup \in BOOLEAN :
          clearAllEmbeddings(dryRun, ClearAllOptions(dryRun, skipBackup), "idle")
    /\ UNCHANGED <<initialized, dimensions, index, last, rx, mg>>

\* if (!dryRun && !skipBackup) await backupEmbeddings(): a backup that
\* rejects ends the command; otherwise the command goes straight to the clear
clearAllCommand ==
    /\ mm.pc = "idle"
    /\ \E dryRun, skipBackup \in BOOLEAN :
          IF ~dryRun /\ ~skipBackup
          THEN backupEmbeddings(ClearAllOptions(dryRun, skipBackup), "clear")
          ELSE clearAllEmbeddings(dryRun, ClearAllOptions(dryRun, skipBackup), "idle")
    /\ UNCHANGED <<initialized, dimensions, index, last, rx, mg>>

\* await clearAllEmbeddings(dryRun), after the backup
clearAllCommandClear ==
    /\ mm.pc = "clear"
    /\ clearAllEmbeddings(mm.cmd.dryRun, mm.cmd, "idle")
    /\ UNCHANGED <<initialized, dimensions, index, last, rx, mg>>

\* the embedding-migration command recreate-index, run with
\* config.vectorDimensions = d
RecreateIndexOptions(d, dryRun) ==
    [name |-> "recreateIndexCommand", vectorDimensions |-> d, dryRun |-> dryRun]

\* a step of a command that is no call of the manager
Stepped(by, pc) ==
    mm' = [mm EXCEPT !.pc = pc, !.cmd = IF pc = "idle" THEN NoCommand ELSE by]

\* if (dryRun) return; await schemaManager.dropIndexIfExists(indexName): a
\* drop that rejects ends the command
recreateIndexCommand ==
    /\ mm.pc = "idle"
    /\ \E d \in Dimensions :
          \/ UNCHANGED <<index, mm>>
          \/ UNCHANGED index /\ Stepped(RecreateIndexOptions(d, FALSE), "idle")
          \/ index' = NoIndex /\ Stepped(RecreateIndexOptions(d, FALSE), "create")
    /\ UNCHANGED <<initialized, dimensions, nodes, last, rx, mg>>

\* await schemaManager.createVectorIndex(indexName, 'Entity', 'embedding',
\* config.vectorDimensions, similarityFunction, false)
recreateIndexCommandCreate ==
    /\ mm.pc = "create"
    /\ \/ UNCHANGED index /\ Stepped(mm.cmd, "idle")
       \/ index' = createVectorIndex(mm.cmd.vectorDimensions)
             /\ Stepped(mm.cmd, "validate")
    /\ UNCHANGED <<initialized, dimensions, nodes, last, rx, mg>>

\* await migrationManager.validateVectorIndex(indexName, vectorDimensions)
recreateIndexCommandValidate ==
    /\ mm.pc = "validate"
    /\ validateVectorIndex(mm.cmd.vectorDimensions, mm.cmd, "idle")
    /\ UNCHANGED <<initialized, dimensions, index, last, rx, mg>>

\* the embedding-migration command restore
restoreCommand ==
    /\ mm.pc = "idle"
    /\ restoreEmbeddings([name |-> "restoreCommand"], "idle")
    /\ UNCHANGED <<initialized, dimensions, index, last, rx, mg>>

\* the graphs the manager is run on: any of the initial graphs, each node
\* with no embedding or one of some length, and no shadow field
InitMigration ==
    /\ initialized = FALSE
    /\ dimensions = MaxDim
    /\ index = Index(dimensions)
    /\ \E g \in InitialGraphs :
          \E embs \in [1..Len(g) -> {NULL} \cup {Vec(d, "1") : d \in Dimensions}] :
             nodes = [i \in 1..Len(g) |-> [g[i] EXCEPT !.emb = embs[i]]]
    /\ last = NoCall
    /\ rx = Idle
    /\ mg = Idle
    /\ mm = NoCalls

NextMigration ==
    \/ AnalyzeEmbeddingState \/ ClearMismatchedEmbeddings \/ ClearAllEmbeddings
    \/ BackupEmbeddings \/ RestoreEmbeddings \/ CleanupBackups
    \/ ValidateVectorIndex
    \/ clearAllCommand \/ clearAllCommandClear
    \/ recreateIndexCommand \/ recreateIndexCommandCreate
    \/ recreateIndexCommandValidate \/ restoreCommand

SpecMigration == InitMigration /\ [][NextMigration]_vars

----------------------------------------------------------------------------
(* Claims about Neo4jVectorStore *)

IsSearch == last.op = "search"
IsHybridCall == IsSearch /\ last.options.hybridSearch /\ last.options.queryText # <<>>
IsPureCall == IsSearch /\ ~IsHybridCall
Returned == IsSearch /\ last.outcome = "ok"

\* C1: a search on an initialized store whose query vector is not of the
\* configured dimension is rejected: it returns no result list, and it
\* submits no vector, reshaped or not, to the index.
C1_WrongLengthRejected ==
    (IsSearch /\ initialized /\ Len(last.queryVector) # dimensions)
        => /\ last.outcome = "error"
           /\ last.indexCalls = <<>>

\* C2: whatever addVector, reindexEmbeddings and the migration have written,
\* every stored embedding has the length the vector index is declared with.
C2_StoredMatchIndex ==
    index.exists =>
        \A i \in NodeIds : HasEmbedding(nodes[i]) => Len(nodes[i].emb) = index.dims

\* C3: after initialize() succeeded and a vector of the configured dimension
\* was stored by addVector, a search with a non-degenerate query vector of
\* that dimension meets no dimension error, from the store or from the index.
C3_RoundTripNoDimensionError ==
    (/\ IsSearch /\ initialized
     /\ Len(last.queryVector) = dimensions
     /\ vectorHasValidNorm(last.queryVector)
     /\ \E i \in NodeIds : HasEmbedding(nodes[i]) /\ Len(nodes[i].emb) = dimensions)
        => /\ last.indexCalls # <<>> \/ "db" \in Range(last.caught) \/ last.error = "db"
           /\ "dimension" \notin Range(last.caught)
           /\ "indexDimension" \notin Range(last.caught)

AddVectorMismatch ==
    last.op = "addVector" /\ Len(last.vector) # dimensions

\* C4 as claimed: addVector with a vector of another length raises a
\* dimension error before any session is opened, and writes nothing.
C4_Original ==
    AddVectorMismatch
        => /\ last.outcome = "error" /\ last.error = "dimension"
           /\ last.sessions = 0
           /\ nodes = last.before

\* C4 as amended: addVector with a vector of another length raises an error
\* before any session is opened and writes nothing; the error is the
\* dimension error on an initialized store and the not-initialized error on
\* a store that is not initialized.
C4_MismatchRejectedBeforeSession ==
    AddVectorMismatch
        => /\ last.outcome = "error"
           /\ last.error = IF initialized THEN "dimension" ELSE "notInitialized"
           /\ last.sessions = 0
           /\ nodes = last.before

C4_Witness ==
    /\ AddVectorMismatch /\ initialized /\ last.error = "dimension"
    /\ Len(nodes) > 0

\* all zeros, a component that is not finite, or a norm that is not finite
Degenerate(v) ==
    \/ \A i \in 1..Len(v) : v[i] = "0"
    \/ \E i \in 1..Len(v) : v[i] \in {"inf", "nan"}
    \/ \E i \in 1..Len(v) : v[i] = "big"

\* C5: a degenerate query vector is never submitted to the index, in
\* pure-vector and in hybrid mode; its answer is that of the pattern fallback.
C5_DegenerateNeverQueriesIndex ==
    (IsSearch /\ Degenerate(last.queryVector))
        => last.indexCalls = <<>> /\ last.path = "fallback"

C5_Witness ==
    /\ IsHybridCall /\ initialized
    /\ Len(last.queryVector) = dimensions
    /\ \A i \in 1..Len(last.queryVector) : last.queryVector[i] = "0"
    /\ last.outcome = "ok" /\ Len(last.results) > 0

SearchMethods == {"vector", "hybrid-rrf", "fallback", "vector+rerank"}

\* C6: every result of search carries metadata.searchMethod, one of vector,
\* hybrid-rrf, fallback, vector+rerank; a fallback result carries fallback.
C6_SearchMethodPresent ==
    Returned =>
        \A i \in 1..Len(last.results) :
           /\ "searchMethod" \in DOMAIN last.results[i].metadata
           /\ last.results[i].metadata.searchMethod \in SearchMethods
           /\ last.path = "fallback"
                 => last.results[i].metadata.searchMethod = "fallback"

\* the best 1-based rank of id in the list L, and its RRF contribution
InList(L, id) == \E i \in 1..Len(L) : L[i].id = id
RankIn(L, id) == CHOOSE i \in 1..Len(L) :
                    L[i].id = id /\ \A j \in 1..Len(L) : L[j].id = id => i <= j
Contribution(L, id, k) == IF InList(L, id) THEN Rat(1, k + RankIn(L, id)) ELSE Rat(0, 1)

FusedByFormula(id) ==
    RatAdd(Contribution(last.V, id, RrfK(last.options)),
           Contribution(last.K, id, RrfK(last.options)))

ReturnedByHybrid == Returned /\ last.path = "hybrid"

\* C7: every entity a hybrid search returns has the fused score
\* [e in V]/(k + rank_V(e)) + [e in K]/(k + rank_K(e)), as similarity and as
\* metadata.rrfScore.
C7_FusedScoreFormula ==
    ReturnedByHybrid =>
        \A i \in 1..Len(last.results) :
           /\ RatEq(last.results[i].similarity, FusedByFormula(last.results[i].id))
           /\ RatEq(last.results[i].metadata.rrfScore,
                    FusedByFormula(last.results[i].id))

\* the ids of V then K in order of first appearance: the insertion order
RECURSIVE FirstAppearances(_)
FirstAppearances(L) ==
    IF L = <<>> THEN <<>>
    ELSE LET front == FirstAppearances(SubSeq(L, 1, Len(L) - 1))
         IN IF L[Len(L)].id \in Range(front) THEN front
            ELSE Append(front, L[Len(L)].id)

Inserted == FirstAppearances(last.V \o last.K)
PlaceOf(id) == CHOOSE i \in 1..Len(Inserted) : Inserted[i] = id
FusedOf(id) == MapGet(RrfScores(last.V, last.K, RrfK(last.options)), id).score

\* a comes before b: a higher fused score, or the same score and inserted first
Precedes(a, b) ==
    \/ RatLess(FusedOf(b), FusedOf(a))
    \/ RatEq(FusedOf(a), FusedOf(b)) /\ PlaceOf(a) < PlaceOf(b)

\* C8: a hybrid search returns the first limit entities of the union of V and
\* K in the order: fused score descending, equal scores in insertion order
\* (V in rank order, then the entities only in K in rank order).  That order
\* is total, so equal V, K, k and limit give the same sequence.
C8_SortedStableTruncated ==
    ReturnedByHybrid =>
        LET ids == [i \in 1..Len(last.results) |-> last.results[i].id]
        IN /\ Len(ids) = Min(Limit(last.options), Len(Inserted))
           /\ Range(ids) \subseteq Range(Inserted)
           /\ \A i \in 1..Len(ids) : RatEq(last.results[i].similarity, FusedOf(ids[i]))
           /\ \A i, j \in 1..Len(ids) : i < j => Precedes(ids[i], ids[j])
           /\ \A x \in Range(Inserted) \ Range(ids) :
                 \A i \in 1..Len(ids) : Precedes(ids[i], x)

\* a tie between an entity only in V and one only in K, cut by the limit
C8_Witness ==
    /\ ReturnedByHybrid
    /\ Len(Inserted) > Len(last.results)
    /\ \E a, b \in Range(Inserted) :
          /\ a # b /\ RatEq(FusedOf(a), FusedOf(b))
          /\ a \in {last.results[i].id : i \in 1..Len(last.results)}

\* C9 as claimed: in pure-vector mode every returned result has similarity
\* >= minSimilarity.
C9_Original ==
    (IsPureCall /\ Returned) =>
        \A i \in 1..Len(last.results) :
           RatLeq(Hundredths(MinSimilarity(last.options)), last.results[i].similarity)

\* C9 as amended: in pure-vector mode every result that comes from the
\* vector index query has similarity >= minSimilarity; the results of the
\* pattern fallback carry the placeholders 0.75 and 0.5 whatever
\* minSimilarity is.
C9_VectorResultsMeetMinSimilarity ==
    (IsPureCall /\ Returned) =>
        \A i \in 1..Len(last.results) :
           IF last.path = "vector"
           THEN RatLeq(Hundredths(MinSimilarity(last.options)),
                       last.results[i].similarity)
           ELSE \/ RatEq(last.results[i].similarity, Hundredths(PatternSimilarity))
                \/ RatEq(last.results[i].similarity, Hundredths(RecencySimilarity))

\* a vector answer under minSimilarity 0.6 that leaves a candidate out
C9_Witness ==
    /\ IsPureCall /\ Returned /\ last.path = "vector"
    /\ MinSimilarity(last.options) = 60
    /\ Len(last.results) < Min(Limit(last.options),
                               Cardinality({i \in NodeIds : Indexed(i)}))

\* C10: when the primary query path, pure-vector or hybrid, throws or yields
\* no result, search returns what the pattern fallback returns.
C10_PrimaryFailureFallsBack ==
    (IsSearch /\ last.primary \in {"threw", "empty"})
        => \/ last.path = "fallback"
           \/ /\ last.outcome = "ok"
              /\ last.results \in {SeqMap(FallbackResult, rows) :
                                     rows \in FallbackQueryRows(Limit(last.options))}

\* the keyword score as documented, in halves: 2.0 for the name, 0.5 for each
\* matching observation
DocumentedHalves(n, queryText) ==
    (IF Contains(n.name, queryText) THEN 4 ELSE 0) + ObsMatches(n, queryText)

\* C11: every row of the keyword list carries the score 2.0 [name contains the
\* query text] + 0.5 for each observation containing it, of an entity of that
\* name, and the list is in descending order of score.
C11_KeywordScore ==
    ReturnedByHybrid =>
        /\ \A i \in 1..Len(last.K) :
              \E n \in NodeIds :
                 /\ nodes[n].name = last.K[i].id
                 /\ RatEq(last.K[i].score,
                          Rat(DocumentedHalves(nodes[n], last.options.queryText), 2))
        /\ \A i, j \in 1..Len(last.K) :
              i < j => RatLeq(last.K[j].score, last.K[i].score)

----------------------------------------------------------------------------
(* Claims about Neo4jMigrationManager and the embedding-migration commands *)

\* the latest call of the manager was op and it completed
Completed(op) == mm.call.op = op /\ mm.call.outcome = "ok"

\* the live entities of g that have an embedding
LiveEmbedded(g) == LiveIn(g) \cap EmbeddedIn(g)

\* C12 as stated: analyzeEmbeddingState(d) returns 'consistent' if and only
\* if every live entity that has an embedding has a vector of length d.
C12_Original ==
    Completed("analyzeEmbeddingState") =>
        LET g == mm.call.before
            d == mm.call.args.expectedDimensions
        IN mm.call.result.consistencyStatus = "consistent"
              <=> \A i \in LiveEmbedded(g) : Len(g[i].emb) = d

\* C12: analyzeEmbeddingState(d) returns 'consistent' if and only if some
\* live entity has an embedding and every live entity has an embedding of
\* length d.
C12_ConsistentIff ==
    Completed("analyzeEmbeddingState") =>
        LET g == mm.call.before
            d == mm.call.args.expectedDimensions
        IN mm.call.result.consistencyStatus = "consistent"
              <=> /\ LiveEmbedded(g) # {}
                  /\ \A i \in LiveIn(g) : g[i].emb # NULL /\ Len(g[i].emb) = d

\* an analysis of a graph with several live entities that returns 'consistent'
C12_Witness ==
    /\ Completed("analyzeEmbeddingState")
    /\ mm.call.result.consistencyStatus = "consistent"
    /\ Cardinality(LiveIn(mm.call.before)) > 1

\* the entries of a list of mismatches with hasEmbedding = h
EntriesWith(mismatches, h) ==
    {j \in 1..Len(mismatches) : mismatches[j].hasEmbedding = h}

\* C13: analyzeEmbeddingState(d) returns the summary the live entities
\* determine: totalEntities = entitiesWithEmbeddings + entitiesWithoutEmbeddings,
\* both counted over the live entities; dimensionCounts maps each occurring
\* vector length to its number of live entities; mismatches lists, up to its
\* cap and each once, the live entities with a vector of another length
\* (hasEmbedding, currentDimensions the length) and, up to its cap and each
\* once, the live entities without an embedding (currentDimensions 0); the
\* status is 'no-embeddings' if no entity has an embedding, else
\* 'inconsistent' if mismatches is non-empty, else 'consistent'.
C13_SummaryOfLivePopulation ==
    Completed("analyzeEmbeddingState") =>
        LET g == mm.call.before
            d == mm.call.args.expectedDimensions
            r == mm.call.result
            wrong == {i \in LiveEmbedded(g) : Len(g[i].emb) # d}
            missing == LiveIn(g) \ EmbeddedIn(g)
            lengths == {Len(g[i].emb) : i \in LiveEmbedded(g)}
        IN /\ r.totalEntities = Cardinality(LiveIn(g))
           /\ r.entitiesWithEmbeddings = Cardinality(LiveEmbedded(g))
           /\ r.totalEntities = r.entitiesWithEmbeddings + r.entitiesWithoutEmbeddings
           /\ DOMAIN r.dimensionCounts = lengths
           /\ \A n \in lengths :
                 r.dimensionCounts[n] =
                     Cardinality({i \in LiveEmbedded(g) : Len(g[i].emb) = n})
           /\ Cardinality(EntriesWith(r.mismatches, TRUE))
                 = Min(MismatchCap, Cardinality(wrong))
           /\ Cardinality(EntriesWith(r.mismatches, FALSE))
                 = Min(MissingCap, Cardinality(missing))
           /\ \A j \in EntriesWith(r.mismatches, TRUE) :
                 \E i \in wrong :
                    /\ r.mismatches[j].entityName = g[i].name
                    /\ r.mismatches[j].entityType = g[i].etype
                    /\ r.mismatches[j].currentDimensions = Len(g[i].emb)
                    /\ r.mismatches[j].expectedDimensions = d
           /\ \A j \in EntriesWith(r.mismatches, FALSE) :
                 \E i \in missing :
                    /\ r.mismatches[j].entityName = g[i].name
                    /\ r.mismatches[j].entityType = g[i].etype
                    /\ r.mismatches[j].currentDimensions = 0
                    /\ r.mismatches[j].expectedDimensions = d
           /\ \A j, k \in 1..Len(r.mismatches) :
                 j # k => r.mismatches[j].entityName # r.mismatches[k].entityName
           /\ r.consistencyStatus =
                 IF r.entitiesWithEmbeddings = 0 THEN "no-embeddings"
                 ELSE IF Len(r.mismatches) > 0 THEN "inconsistent"
                 ELSE "consistent"

\* an analysis that lists an entity with a vector of another length and an
\* entity without an embedding, on a graph with an embedded historical version
C13_Witness ==
    /\ Completed("analyzeEmbeddingState")
    /\ EntriesWith(mm.call.result.mismatches, TRUE) # {}
    /\ EntriesWith(mm.call.result.mismatches, FALSE) # {}
    /\ mm.call.result.consistencyStatus = "inconsistent"
    /\ EmbeddedIn(mm.call.before) \ LiveIn(mm.call.before) # {}

\* the nodes whose embedding a call removed
RemovedBy(call) ==
    {i \in 1..Len(call.before) :
        call.before[i].emb # NULL /\ call.after[i].emb = NULL}

\* the nodes a clear with these arguments is to clear on g
ToClear(op, args, g) ==
    IF op = "clearAllEmbeddings" THEN {i \in 1..Len(g) : g[i].emb # NULL}
    ELSE {i \in 1..Len(g) :
             g[i].emb # NULL /\ Len(g[i].emb) # args.expectedDimensions}

ClearOps == {"clearAllEmbeddings", "clearMismatchedEmbeddings"}

\* C14: clearAllEmbeddings(dryRun = true) and clearMismatchedEmbeddings(d,
\* dryRun = true) return the number of embeddings the real run clears on the
\* same graph, and write nothing: every property of every entity is as before.
C14_DryRunCountsAndWritesNothing ==
    \A op \in ClearOps :
       Completed(op) =>
          LET c == mm.call
          IN /\ c.result = Cardinality(ToClear(op, c.args, c.before))
             /\ c.args.dryRun => c.after = c.before /\ nodes = c.before
             /\ ~c.args.dryRun =>
                   /\ RemovedBy(c) = ToClear(op, c.args, c.before)
                   /\ Cardinality(RemovedBy(c)) = c.result

\* a dry run of clearMismatchedEmbeddings that reports some, not all, of the
\* embeddings
C14_Witness ==
    /\ Completed("clearMismatchedEmbeddings")
    /\ mm.call.args.dryRun
    /\ mm.call.result > 0
    /\ mm.call.result < Cardinality(EmbeddedIn(mm.call.before))
    /\ nodes = mm.call.before

\* C15: from a graph where no entity has a shadow field, backupEmbeddings,
\* then clearAllEmbeddings, then restoreEmbeddings leave every entity's
\* embedding equal to its value before the backup and no shadow field, and
\* the restore returns the number of entities that had an embedding when the
\* backup was made.
C15_BackupClearRestore ==
    mm.roundTrip.stage = 3 =>
        LET origin == mm.roundTrip.origin
        IN /\ Len(nodes) = Len(origin)
           /\ \A i \in NodeIds : nodes[i].emb = origin[i].emb
           /\ ShadowedIn(nodes) = {}
           /\ mm.call.op = "restoreEmbeddings"
           /\ mm.call.result = Cardinality(EmbeddedIn(origin))

\* a completed round trip on a graph with embeddings of two lengths, where
\* the clear removed them all
C15_Witness ==
    /\ mm.roundTrip.stage = 3
    /\ \E i, j \in EmbeddedIn(mm.roundTrip.origin) :
          Len(mm.roundTrip.origin[i].emb) # Len(mm.roundTrip.origin[j].emb)
    /\ EmbeddedIn(mm.call.before) = {}
    /\ EmbeddedIn(nodes) # {}

\* the call this step makes is a call of op by the clear-all command
ClearAllCommandCalls(op) ==
    /\ mm'.call # mm.call
    /\ mm'.call.op = op
    /\ mm'.call.by.name = "clearAllCommand"

\* C16: in the clear-all command, unless skipBackup or dryRun is set,
\* clearAllEmbeddings begins only when the command's backupEmbeddings has
\* completed, on the graph that backup left; a backup that fails ends the
\* command with no embedding cleared; with dryRun set the command makes no
\* backup and its clear writes nothing.
C16_BackupBeforeClear ==
    [][/\ ClearAllCommandCalls("clearAllEmbeddings")
          /\ ~mm'.call.by.dryRun /\ ~mm'.call.by.skipBackup
          => /\ mm.pc = "clear"
             /\ mm.call.op = "backupEmbeddings"
             /\ mm.call.outcome = "ok"
             /\ mm.call.by = mm'.call.by
             /\ nodes = mm.call.after
             /\ \A i \in EmbeddedIn(nodes) : nodes[i].backup = nodes[i].emb
       /\ ClearAllCommandCalls("backupEmbeddings")
          => /\ ~mm'.call.by.dryRun /\ ~mm'.call.by.skipBackup
             /\ mm'.call.outcome = "error" => nodes' = nodes /\ mm'.pc = "idle"
       /\ mm'.call # mm.call /\ mm'.call.by.name = "clearAllCommand"
          /\ mm'.call.by.dryRun
          => nodes' = nodes /\ mm'.call.op = "clearAllEmbeddings"
      ]_vars

\* the command has cleared embeddings it had backed up first
C16_Witness ==
    /\ Completed("clearAllEmbeddings")
    /\ mm.call.by = ClearAllOptions(FALSE, FALSE)
    /\ mm.call.result > 0
    /\ EmbeddedIn(nodes) = {}
    /\ ShadowedIn(nodes) = EmbeddedIn(mm.call.before)

\* C17: the clear-all command run with --skip-backup only removes the backup
\* (shadow) properties: afterwards no entity has a shadow field and every
\* entity's embedding is as before.
C17_SkipBackupOnlyRemovesBackups ==
    /\ Completed("clearAllEmbeddings")
    /\ mm.call.by = ClearAllOptions(FALSE, TRUE)
    => /\ \A i \in 1..Len(mm.call.before) :
             mm.call.after[i].emb = mm.call.before[i].emb
       /\ ShadowedIn(mm.call.after) = {}

\* C18: the vector index is recreated with new parameters only after the
\* stored embeddings have been cleared or regenerated: when a migration run
\* or the recreate-index command creates the index, every stored embedding
\* has the length the new index declares.
C18_IndexRecreatedAfterEmbeddings ==
    [][/\ mg.pc = "create" \/ mm.pc = "create"
       /\ index' # index
       /\ index'.exists
       => \A i \in NodeIds :
             nodes[i].emb = NULL \/ Len(nodes[i].emb) = index'.dims
      ]_vars

----------------------------------------------------------------------------
(* Claims about Neo4jReindexManager *)

\* C19: in reindexEmbeddings a failure while generating or storing the
\* embedding of one entity is recorded as one {entityName, error} entry and
\* the run goes on with the next entity: a run in its batch loop never ends
\* in an error, each step processes one more entity, errors has exactly one
\* entry per failed entity, and on return processed = total and
\* succeeded + failed = total.
C19_FailureRecordedRunContinues ==
    [][rx.pc = "run" /\ rx' # rx
       => /\ rx'.pc \in {"run", "done"}
          /\ rx'.processed = rx.processed + 1
          /\ rx'.succeeded + rx'.failed = rx'.processed
          /\ Len(rx'.errors) = rx'.failed
          /\ rx'.failed = rx.failed + 1
                => /\ rx'.errors[rx'.failed].entityName = rx.entities[rx'.processed]
                   /\ SubSeq(rx'.errors, 1, rx.failed) = rx.errors
                   /\ nodes' = nodes
          /\ rx'.failed = rx.failed => rx'.errors = rx.errors
          /\ rx'.pc = "run" => rx'.processed < Len(rx.entities)
          /\ rx'.pc = "done"
                => /\ rx'.outcome = "ok"
                   /\ rx'.total = Len(rx.entities)
                   /\ rx'.processed = rx'.total
                   /\ rx'.succeeded + rx'.failed = rx'.total
      ]_vars

\* a run returned after its first entity failed and its second succeeded
C19_Witness ==
    /\ rx.pc = "done"
    /\ rx.outcome = "ok"
    /\ rx.total = 2
    /\ rx.failed = 1
    /\ rx.succeeded = 1
    /\ Len(rx.errors) = 1
    /\ \E i \in NodeIds :
          /\ nodes[i].live
          /\ nodes[i].name # rx.errors[1].entityName
          /\ nodes[i].emb # NULL

\* the entities a reindex with options o selects on the graph, counted
SelectedCount(o) ==
    LET selected == {i \in NodeIds :
                        /\ nodes[i].live
                        /\ (o.force /\ ~o.onlyMissing) \/ nodes[i].emb = NULL}
    IN IF o.limit # 0 THEN Min(o.limit, Cardinality(selected))
       ELSE Cardinality(selected)

\* C20: reindexEmbeddings with dryRun = true only selects: it never enters
\* the batch loop, so it calls no embedding provider, writes nothing and
\* emits no progress event, and it returns total = the number of selected
\* entities, processed = succeeded = failed = skipped = 0 and no errors.
C20_DryRunOnlySelects ==
    [][/\ rx'.pc = "run" => ~rx'.options.dryRun
       /\ rx' # rx /\ rx'.pc = "done" /\ rx'.outcome = "ok" /\ rx'.options.dryRun
          => /\ rx.pc = "idle"
             /\ nodes' = nodes
             /\ rx'.calls = 0
             /\ rx'.events = <<>>
             /\ rx'.total = SelectedCount(rx'.options)
             /\ rx'.processed = 0 /\ rx'.succeeded = 0
             /\ rx'.failed = 0 /\ rx'.skipped = 0
             /\ rx'.errors = <<>>
      ]_vars

\* a dry run with an onProgress callback returned, having selected entities
C20_Witness ==
    /\ rx.pc = "done"
    /\ rx.outcome = "ok"
    /\ rx.options.dryRun
    /\ rx.options.onProgress
    /\ rx.total > 1
    /\ rx.events = <<>>

----------------------------------------------------------------------------
(* Further claims about Neo4jMigrationManager *)

\* C21: clearMismatchedEmbeddings(d) removes the embedding of exactly the
\* entities whose embedding has a length other than d, leaves every embedding
\* of length d and everything else as it was, and returns the number of
\* embeddings removed; when no embedding mismatches it writes nothing and
\* returns 0.
C21_ClearsExactlyMismatched ==
    Completed("clearMismatchedEmbeddings") /\ ~mm.call.args.dryRun =>
        LET g == mm.call.before
            h == mm.call.after
            d == mm.call.args.expectedDimensions
            wrong == {i \in 1..Len(g) : g[i].emb # NULL /\ Len(g[i].emb) # d}
        IN /\ Len(h) = Len(g)
           /\ \A i \in 1..Len(g) :
                 h[i] = IF i \in wrong THEN [g[i] EXCEPT !.emb = NULL] ELSE g[i]
           /\ mm.call.result = Cardinality(wrong)
           /\ wrong = {} => h = g /\ mm.call.result = 0

\* a clear that removed the mismatched embedding of a historical version and
\* left an embedding of length d in place
C21_Witness ==
    /\ Completed("clearMismatchedEmbeddings")
    /\ ~mm.call.args.dryRun
    /\ \E i \in RemovedBy(mm.call) : ~mm.call.before[i].live
    /\ \E i \in EmbeddedIn(mm.call.after) :
          Len(mm.call.after[i].emb) = mm.call.args.expectedDimensions

\* C22: the transitions are idempotent: a clearAllEmbeddings,
\* clearMismatchedEmbeddings(d) or restoreEmbeddings that directly follows a
\* completed call of the same kind returns 0 and changes nothing, and a
\* backupEmbeddings that directly follows another leaves every embedding and
\* every shadow value as the first left them.
C22_TransitionsIdempotent ==
    mm.repeat.is =>
        /\ mm.call.op \in {"clearAllEmbeddings", "clearMismatchedEmbeddings",
                            "restoreEmbeddings"}
              => mm.call.result = 0 /\ mm.call.after = mm.call.before
        /\ mm.call.op = "backupEmbeddings"
              => \A i \in 1..Len(mm.call.before) :
                    /\ mm.call.after[i].emb = mm.call.before[i].emb
                    /\ mm.call.after[i].backup = mm.call.before[i].backup

\* a second clear or restore after a first that cleared or restored something
C22_Witness ==
    /\ mm.repeat.is
    /\ mm.repeat.first > 0
    /\ mm.call.op \in {"clearMismatchedEmbeddings", "restoreEmbeddings"}
    /\ EmbeddedIn(nodes) # {}

----------------------------------------------------------------------------
(* Further claims about Neo4jReindexManager *)

\* C23: in every reachable state an entity's provenance fields describe its
\* current embedding: they are present only while an embedding is present,
\* and embeddingDimensions equals the embedding's length.
C23_ProvenanceDescribesEmbedding ==
    \A i \in NodeIds :
       nodes[i].embeddingDimensions # NoProvenance
          => /\ nodes[i].emb # NULL
             /\ nodes[i].embeddingDimensions = Len(nodes[i].emb)

\* the number of entities of the run in progress or returned
RunTotal == IF rx.pc = "run" THEN Len(rx.entities) ELSE rx.total

\* a reindex that entered its batch loop with a progress callback
Reporting ==
    /\ rx.pc \in {"run", "done"}
    /\ rx.options.onProgress
    /\ rx.pc = "done" => rx.outcome = "ok" /\ ~rx.options.dryRun

\* C24: with an onProgress callback, there is exactly one progress event after
\* each processed entity, the events' processed values are 1, 2, ... in order,
\* each event has processed = succeeded + failed + skipped and
\* 1 <= currentBatch <= totalBatches, and when the run has returned the last
\* event has processed = total and percentage = 100
C24_OneProgressEventPerEntity ==
    Reporting =>
       /\ Len(rx.events) = rx.processed
       /\ \A k \in 1..Len(rx.events) :
             LET e == rx.events[k]
             IN /\ e.processed = k
                /\ e.total = RunTotal
                /\ e.processed = e.succeeded + e.failed + e.skipped
                /\ 1 <= e.currentBatch
                /\ e.currentBatch <= e.totalBatches
       /\ rx.pc = "done" /\ rx.total > 0 =>
             /\ rx.events # <<>>
             /\ rx.events[Len(rx.events)].processed = rx.total
             /\ RatEq(rx.events[Len(rx.events)].percentage, Rat(100, 1))

\* a run of two batches has returned, one entity failed and one succeeded
C24_Witness ==
    /\ Reporting
    /\ rx.pc = "done"
    /\ rx.total = 2
    /\ rx.failed = 1
    /\ rx.succeeded = 1
    /\ Len(rx.events) = 2
    /\ rx.events[1].currentBatch = 1
    /\ rx.events[2].currentBatch = 2
    /\ rx.events[2].totalBatches = 2

\* a reindex that went through its batch loop and returned
LoopReturned ==
    /\ rx.pc = "done"
    /\ rx.outcome = "ok"
    /\ ~rx.options.dryRun
    /\ rx.total > 0

\* C25: for every configured batchDelay >= 0, the run sleeps that delay after
\* each batch that is followed by another batch and never after the final
\* batch (a sleep of 0 ms may as well not happen)
C25_SleepsConfiguredDelayBetweenBatches ==
    LoopReturned /\ rx.options.batchDelay >= 0 =>
       LET between == TotalBatches(rx.total, BatchSizeOf(rx.options)) - 1
       IN /\ \A k \in 1..Len(rx.sleeps) : rx.sleeps[k] = rx.options.batchDelay
          /\ Len(rx.sleeps) <= between
          /\ rx.options.batchDelay > 0 => Len(rx.sleeps) = between

\* the rules of the claim that the options violate
ViolatedRules(o) ==
    {r \in {"batchSize", "limit", "batchDelay", "customQuery", "entityTypes"} :
       \/ r = "batchSize" /\ o.batchSize \notin 1..BatchSizeLimit
       \/ r = "limit" /\ o.limit < 0
       \/ r = "batchDelay" /\ o.batchDelay < 0
       \/ r = "customQuery" /\ o.customQuery.given
                            /\ ~IncludesReturn(o.customQuery.value)
       \/ r = "entityTypes" /\ o.entityTypes.given
                            /\ o.entityTypes.value = <<>>}

\* C26: validateOptions reports isValid = false exactly when batchSize is
\* outside 1..1000, limit is negative, batchDelay is negative, customQuery has
\* no RETURN clause or entityTypes is an empty list, with one error for each
\* violated rule
C26_RejectedExactlyWhenRuleViolated ==
    rx.pc = "validated" =>
       LET v == rx.validation
           violated == ViolatedRules(rx.options)
       IN /\ v.isValid <=> violated = {}
          /\ {v.errors[k] : k \in 1..Len(v.errors)} = violated
          /\ Len(v.errors) = Cardinality(violated)

(***************************************************************************)
(* EmbeddingConfigValidator: the environment's embedding configuration     *)
(***************************************************************************)

\* a JavaScript number that may be NaN
Num(n) == [nan |-> FALSE, value |-> n]
NaN == [nan |-> TRUE, value |-> 0]

\* a === b on numbers: NaN equals nothing
StrictEquals(a, b) == ~a.nan /\ ~b.nan /\ a.value = b.value

\* the decimal digits, a text being a sequence of characters
DigitChars == <<"0", "1", "2", "3", "4", "5", "6", "7", "8", "9">>
IsDigit(c) == \E d \in 1..10 : DigitChars[d] = c
DigitValue(c) == (CHOOSE d \in 1..10 : DigitChars[d] = c) - 1

\* the value of a sequence of digits
RECURSIVE DecimalValue(_)
DecimalValue(digits) ==
    IF digits = <<>> THEN 0
    ELSE 10 * DecimalValue(SubSeq(digits, 1, Len(digits) - 1))
         + DigitValue(digits[Len(digits)])

\* the length of the longest prefix of a text that consists of digits
RECURSIVE DigitPrefix(_)
DigitPrefix(text) ==
    IF text # <<>> /\ IsDigit(Head(text)) THEN 1 + DigitPrefix(Tail(text)) ELSE 0

\* parseInt(text, 10): an optional sign, then the longest prefix of digits;
\* NaN when there is no digit
parseInt(text) ==
    LET signed == text # <<>> /\ Head(text) \in {"-", "+"}
        body == IF signed THEN Tail(text) ELSE text
        n == DigitPrefix(body)
        magnitude == DecimalValue(SubSeq(body, 1, n))
    IN IF n = 0 THEN NaN
       ELSE IF signed /\ Head(text) = "-" THEN Num(0 - magnitude)
       ELSE Num(magnitude)

\* model names, as a prefix and the rest of the name
OPENAI_MODEL_DIMENSIONS ==
    (<<"text-embedding-", "3-small">> :> 1536)
    @@ (<<"text-embedding-", "3-large">> :> 3072)
    @@ (<<"text-embedding-", "ada-002">> :> 1536)

VOYAGE_MODEL_DIMENSIONS ==
    (<<"voyage-", "3">> :> 1024)
    @@ (<<"voyage-", "3-large">> :> 1024)
    @@ (<<"voyage-", "3-lite">> :> 512)
    @@ (<<"voyage-", "finance-2">> :> 1024)
    @@ (<<"voyage-", "multilingual-2">> :> 1024)
    @@ (<<"voyage-", "law-2">> :> 1024)
    @@ (<<"voyage-", "code-2">> :> 1536)
    @@ (<<"voyage-", "2">> :> 1024)
    @@ (<<"voyage-", "large-2">> :> 1536)
    @@ (<<"voyage-", "large-2-instruct">> :> 1024)

\* modelName.startsWith('voyage-')
StartsWithVoyage(modelName) == modelName # <<>> /\ Head(modelName) = "voyage-"

\* table[modelName] || fallback
DimensionsIn(table, modelName, fallback) ==
    IF modelName \in DOMAIN table THEN table[modelName] ELSE fallback

getModelDimensions(modelName) ==
    IF StartsWithVoyage(modelName)
    THEN DimensionsIn(VOYAGE_MODEL_DIMENSIONS, modelName, 1024)
    ELSE DimensionsIn(OPENAI_MODEL_DIMENSIONS, modelName, 1536)

\* the model names the environment is tried with; <<>> is a variable not set
ModelNames ==
    {<<>>, <<"text-embedding-", "3-small">>, <<"text-embedding-", "3-large">>,
     <<"text-embedding-", "ada-002">>, <<"unknown-model">>,
     <<"voyage-", "3">>, <<"voyage-", "3-lite">>, <<"voyage-", "unknown">>}

\* the texts a dimension variable is tried with; <<>> is a variable not set
DimensionTexts ==
    {<<>>, <<"1", "5", "3", "6">>, <<"3", "0", "7", "2">>, <<"1", "0", "2", "4">>,
     <<"0">>, <<"-", "1">>, <<"a", "b", "c">>, <<"7", "6", "8", "d">>}

Environments ==
    [MOCK_EMBEDDINGS : BOOLEAN, OPENAI_API_KEY : BOOLEAN,
     OPENAI_EMBEDDING_MODEL : ModelNames,
     OPENAI_EMBEDDING_DIMENSIONS : DimensionTexts,
     NEO4J_VECTOR_DIMENSIONS : DimensionTexts]

\* process.env.X || fallback, an empty text being falsy
EnvOr(text, fallback) == IF text # <<>> THEN text ELSE fallback

\* a validation that reports a dimension mismatch as a warning
validateWarningOfMismatch(env) ==
    LET embeddingModel ==
          EnvOr(env.OPENAI_EMBEDDING_MODEL, <<"text-embedding-", "3-small">>)
        inferred == getModelDimensions(embeddingModel)
        embParsed == parseInt(env.OPENAI_EMBEDDING_DIMENSIONS)
        embeddingDimensions ==
          IF env.OPENAI_EMBEDDING_DIMENSIONS # <<>> /\ ~embParsed.nan
          THEN embParsed.value ELSE inferred
        indexParsed == parseInt(env.NEO4J_VECTOR_DIMENSIONS)
        vectorIndexDimensions ==
          IF env.NEO4J_VECTOR_DIMENSIONS # <<>> /\ ~indexParsed.nan
          THEN indexParsed.value ELSE embeddingDimensions
        dimensionsMatch == embeddingDimensions = vectorIndexDimensions
    IN [isValid |-> TRUE,
        warnings |-> IF dimensionsMatch THEN <<>> ELSE <<"mismatch">>,
        errors |-> <<>>,
        config |-> [provider |-> "openai", model |-> embeddingModel,
                    dimensions |-> embeddingDimensions,
                    dimensionsSource |-> "inferred",
                    vectorIndexDimensions |-> vectorIndexDimensions,
                    vectorIndexSource |-> "inferred",
                    dimensionsMatch |-> dimensionsMatch,
                    apiKeyConfigured |-> env.OPENAI_API_KEY,
                    mockEmbeddings |-> env.MOCK_EMBEDDINGS]]

\* a validation whose index dimension defaults to 1536 when not overridden
validateDefaultingIndex(env) ==
    LET r == validateWarningOfMismatch(env)
        indexParsed == parseInt(env.NEO4J_VECTOR_DIMENSIONS)
        vectorIndexDimensions ==
          IF env.NEO4J_VECTOR_DIMENSIONS # <<>> /\ ~indexParsed.nan
          THEN indexParsed.value ELSE 1536
        dimensionsMatch == r.config.dimensions = vectorIndexDimensions
    IN [isValid |-> dimensionsMatch,
        warnings |-> <<>>,
        errors |-> IF dimensionsMatch THEN <<>> ELSE <<"mismatch">>,
        config |-> [r.config EXCEPT
                      !.vectorIndexDimensions = vectorIndexDimensions,
                      !.dimensionsMatch = dimensionsMatch]]

\* EmbeddingConfigValidator.validate(), errors and warnings by their kind
validate(env) ==
    LET mockEmbeddings == env.MOCK_EMBEDDINGS
        apiKeyConfigured == env.OPENAI_API_KEY
        embeddingModel ==
          EnvOr(env.OPENAI_EMBEDDING_MODEL, <<"text-embedding-", "3-small">>)
        isRecognizedModel == embeddingModel \in DOMAIN OPENAI_MODEL_DIMENSIONS
        embSet == env.OPENAI_EMBEDDING_DIMENSIONS # <<>>
        embParsed == parseInt(env.OPENAI_EMBEDDING_DIMENSIONS)
        embeddingDimensions ==
          IF embSet /\ ~embParsed.nan THEN embParsed.value
          ELSE getModelDimensions(embeddingModel)
        dimensionsSource ==
          IF ~embSet THEN "inferred from model"
          ELSE IF embParsed.nan THEN "fallback: inferred from model"
          ELSE "OPENAI_EMBEDDING_DIMENSIONS env var"
        indexSet == env.NEO4J_VECTOR_DIMENSIONS # <<>>
        indexParsed == parseInt(env.NEO4J_VECTOR_DIMENSIONS)
        vectorIndexDimensions ==
          IF indexSet /\ ~indexParsed.nan THEN indexParsed.value
          ELSE embeddingDimensions
        vectorIndexSource ==
          IF ~indexSet THEN "inferred from embedding config"
          ELSE IF indexParsed.nan THEN "fallback: matching embedding dimensions"
          ELSE "NEO4J_VECTOR_DIMENSIONS env var"
        dimensionsMatch == embeddingDimensions = vectorIndexDimensions
        warnings ==
          (IF ~isRecognizedModel /\ ~mockEmbeddings
           THEN <<"unrecognized model">> ELSE <<>>)
          \o (IF ~apiKeyConfigured /\ ~mockEmbeddings
              THEN <<"no api key">> ELSE <<>>)
          \o (IF mockEmbeddings THEN <<"mock embeddings">> ELSE <<>>)
          \o (IF embSet /\ indexSet /\ ~StrictEquals(embParsed, indexParsed)
              THEN <<"conflicting dimensions">> ELSE <<>>)
        errors ==
          (IF embSet /\ embParsed.nan
           THEN <<"invalid OPENAI_EMBEDDING_DIMENSIONS">> ELSE <<>>)
          \o (IF indexSet /\ indexParsed.nan
              THEN <<"invalid NEO4J_VECTOR_DIMENSIONS">> ELSE <<>>)
          \o (IF ~dimensionsMatch THEN <<"mismatch">> ELSE <<>>)
    IN [isValid |-> Len(errors) = 0,
        warnings |-> warnings,
        errors |-> errors,
        config |-> [provider |-> IF mockEmbeddings THEN "mock" ELSE "openai",
                    model |-> embeddingModel,
                    dimensions |-> embeddingDimensions,
                    dimensionsSource |-> dimensionsSource,
                    vectorIndexDimensions |-> vectorIndexDimensions,
                    vectorIndexSource |-> vectorIndexSource,
                    dimensionsMatch |-> dimensionsMatch,
                    apiKeyConfigured |-> apiKeyConfigured,
                    mockEmbeddings |-> mockEmbeddings]]

\* the configuration is validated in the environment the process started in
ValidateConfig ==
    /\ rx.pc = "env"
    /\ rx' = [pc |-> "validated", env |-> rx.env, result |-> validate(rx.env)]
    /\ UNCHANGED <<initialized, dimensions, index, nodes, last, mg, mm>>

\* getDefaultVectorDimensions(): DEFAULT_NEO4J_CONFIG.vectorDimensions
getDefaultVectorDimensions(env) ==
    IF env.NEO4J_VECTOR_DIMENSIONS # <<>>
    THEN parseInt(env.NEO4J_VECTOR_DIMENSIONS)
    ELSE Num(getModelDimensions(
                EnvOr(env.OPENAI_EMBEDDING_MODEL, <<"text-embedding-", "3-small">>)))

\* a number that || keeps: neither NaN nor 0
Truthy(number) == ~number.nan /\ number.value # 0

\* this.dimensions of the Neo4jVectorStore constructor, options.dimensions
\* being a number or none given (NaN here)
StoreDimensions(optionsDimensions, env) ==
    IF Truthy(optionsDimensions) THEN optionsDimensions
    ELSE getDefaultVectorDimensions(env)

\* the store is constructed in the same environment, with the vector
\* dimensions of DEFAULT_NEO4J_CONFIG or with none
ConstructStore ==
    /\ rx.pc = "validated"
    /\ \E passed \in BOOLEAN :
          rx' = [pc |-> "constructed", env |-> rx.env, result |-> rx.result,
                 vectorDimensions |-> getDefaultVectorDimensions(rx.env),
                 storeDimensions |->
                    StoreDimensions(IF passed
                                    THEN getDefaultVectorDimensions(rx.env)
                                    ELSE NaN, rx.env)]
    /\ UNCHANGED <<initialized, dimensions, index, nodes, last, mg, mm>>

InitConfig ==
    /\ initialized = FALSE
    /\ dimensions = MaxDim
    /\ index = NoIndex
    /\ nodes = <<>>
    /\ last = NoCall
    /\ rx \in [pc : {"env"}, env : Environments]
    /\ mg = Idle
    /\ mm = Idle

NextConfig == ValidateConfig \/ ConstructStore

SpecConfig == InitConfig /\ [][NextConfig]_vars

\* the sequence's elements
Elements(s) == {s[k] : k \in 1..Len(s)}

\* C27: validate() returns isValid = false with a mismatch error whenever the
\* resolved embedding dimension differs from the resolved index dimension
C27_MismatchIsInvalid ==
    rx.pc = "validated" =>
       (rx.result.config.dimensions # rx.result.config.vectorIndexDimensions
          => /\ ~rx.result.isValid
             /\ "mismatch" \in Elements(rx.result.errors))

\* the model infers 3072 and the index is overridden to 1536
C27_Witness ==
    /\ rx.pc = "validated"
    /\ rx.result.config.dimensions = 3072
    /\ rx.result.config.vectorIndexDimensions = 1536
    /\ ~rx.result.isValid
    /\ rx.result.errors = <<"mismatch">>

\* a text that is a decimal numeral
IsNumeral(text) == text # <<>> /\ \A k \in 1..Len(text) : IsDigit(text[k])

\* C28: the embedding dimension is the numeric OPENAI_EMBEDDING_DIMENSIONS
\* override when set and otherwise the dimension inferred from the model name;
\* the index dimension is the numeric NEO4J_VECTOR_DIMENSIONS override when set
\* and otherwise the resolved embedding dimension, so that without an index
\* override the two match
C28_DimensionsResolvedByPrecedence ==
    rx.pc = "validated" =>
       LET env == rx.env
           config == rx.result.config
       IN /\ IsNumeral(env.OPENAI_EMBEDDING_DIMENSIONS)
                => config.dimensions = DecimalValue(env.OPENAI_EMBEDDING_DIMENSIONS)
          /\ env.OPENAI_EMBEDDING_DIMENSIONS = <<>>
                => config.dimensions = getModelDimensions(config.model)
          /\ IsNumeral(env.NEO4J_VECTOR_DIMENSIONS)
                => config.vectorIndexDimensions
                      = DecimalValue(env.NEO4J_VECTOR_DIMENSIONS)
          /\ env.NEO4J_VECTOR_DIMENSIONS = <<>>
                => /\ config.vectorIndexDimensions = config.dimensions
                   /\ config.dimensionsMatch
                   /\ "mismatch" \notin Elements(rx.result.errors)

\* a model of 3072 dimensions with no override: the index inherits 3072
C28_Witness ==
    /\ rx.pc = "validated"
    /\ rx.env.OPENAI_EMBEDDING_MODEL = <<"text-embedding-", "3-large">>
    /\ rx.env.OPENAI_EMBEDDING_DIMENSIONS = <<>>
    /\ rx.env.NEO4J_VECTOR_DIMENSIONS = <<>>
    /\ rx.result.config.dimensions = 3072
    /\ rx.result.config.vectorIndexDimensions = 3072
    /\ rx.result.isValid

\* a model name that no table of model dimensions has
UnknownModel(modelName) ==
    /\ modelName \notin DOMAIN OPENAI_MODEL_DIMENSIONS
    /\ modelName \notin DOMAIN VOYAGE_MODEL_DIMENSIONS

\* C29: an unknown embedding model name is never fatal: validate() adds a
\* warning and no error for it, and without a dimension override the embedding
\* dimension resolves to the default 1536
C29_UnknownModelWarnsAndDefaults ==
    rx.pc = "validated" /\ UnknownModel(rx.result.config.model)
                        /\ rx.env.OPENAI_EMBEDDING_DIMENSIONS = <<>>
                        /\ rx.env.NEO4J_VECTOR_DIMENSIONS = <<>> =>
       /\ "unrecognized model" \in Elements(rx.result.warnings)
       /\ rx.result.errors = <<>>
       /\ rx.result.isValid
       /\ rx.result.config.dimensions = 1536

(***************************************************************************)
(* CohereRerankingService.rerank, VoyageAIEmbeddingService.generateEmbedding *)
(* and the failures of their providers                                     *)
(***************************************************************************)

\* message.includes(pattern): the pattern occurs in the message, both being
\* sequences of characters and of whole words
Includes(message, pattern) ==
    \E k \in 0..(Len(message) - Len(pattern)) :
       SubSeq(message, k + 1, k + Len(pattern)) = pattern

\* what a provider's client does with a request: a valid response, a response
\* without results, or a failure of some kind with the client's message
ProviderFailures ==
    [kind : {"authentication"},
     message : {<<"Status code: ", "4", "0", "1">>, <<"authentication", " failed">>,
                <<"Status code: ", "4", "0", "3">>}]
    \cup [kind : {"rate-limit"},
          message : {<<"Status code: ", "4", "2", "9">>, <<"rate limit", " exceeded">>}]
    \cup [kind : {"server error"},
          message : {<<"Status code: ", "5", "0", "0">>,
                     <<"Status code: ", "5", "0", "3">>,
                     <<"Status code: ", "5", "0", "2">>}]
    \cup [kind : {"other"},
          message : {<<"timeout of ", "5", "0", "0", "0", "ms exceeded">>,
                     <<"ECONNRESET">>, <<"Status code: ", "4", "0", "0">>}]

ProviderOutcomes ==
    {[kind |-> "response", message |-> <<>>], [kind |-> "no results", message |-> <<>>]}
    \cup ProviderFailures

\* throw new Error(message): the class of every error the two services raise
Error(message) == [name |-> "Error", message |-> message]

\* the catch block of both services: the error raised for a caught message
Rethrown(errorMessage) ==
    IF Includes(errorMessage, <<"4", "0", "1">>)
       \/ Includes(errorMessage, <<"authentication">>)
    THEN Error(<<"authentication failed - invalid API key">>)
    ELSE IF Includes(errorMessage, <<"4", "2", "9">>)
            \/ Includes(errorMessage, <<"rate limit">>)
    THEN Error(<<"rate limit exceeded - try again later">>)
    ELSE IF Includes(errorMessage, <<"5", "0", "0">>)
            \/ Includes(errorMessage, <<"5", "0", "3">>)
    THEN Error(<<"server error - try again later">>)
    ELSE Error(<<"Error: ">> \o errorMessage)

\* the try block of both services on the provider's outcome
Attempt(call, outcome, result) ==
    IF outcome.kind = "response"
    THEN [pc |-> "returned", call |-> call, called |-> TRUE, outcome |-> outcome,
          result |-> result]
    ELSE [pc |-> "thrown", call |-> call, called |-> TRUE, outcome |-> outcome,
          error |-> Rethrown(IF outcome.kind = "no results"
                             THEN <<"Invalid response">> ELSE outcome.message)]

\* the calls of rerank: the number of documents and topN (0: none given)
RerankCalls == [service : {"cohere"}, documents : 0..2, topN : 0..2]

\* the calls of generateEmbedding: a service of a voyage-3 model or another,
\* and its dimensions
EmbeddingCalls == [service : {"voyage"}, voyage3 : BOOLEAN, dimensions : {2, 3}]

\* CohereRerankingService.rerank
CohereRerank ==
    /\ rx.pc = "call"
    /\ rx.call.service = "cohere"
    /\ rx' = IF rx.call.documents = 0
             THEN [pc |-> "returned", call |-> rx.call, called |-> FALSE,
                   outcome |-> rx.outcome, result |-> 0]
             ELSE LET resultCount == IF rx.call.topN # 0 THEN rx.call.topN
                                     ELSE rx.call.documents
                  IN Attempt(rx.call, rx.outcome,
                             Min(resultCount, rx.call.documents))
    /\ UNCHANGED <<initialized, dimensions, index, nodes, last, mg, mm>>

\* VoyageAIEmbeddingService.generateEmbedding
VoyageGenerateEmbedding ==
    /\ rx.pc = "call"
    /\ rx.call.service = "voyage"
    /\ rx' = Attempt(rx.call, rx.outcome, rx.call.dimensions)
    /\ UNCHANGED <<initialized, dimensions, index, nodes, last, mg, mm>>

InitProviders ==
    /\ initialized = FALSE
    /\ dimensions = MaxDim
    /\ index = NoIndex
    /\ nodes = <<>>
    /\ last = NoCall
    /\ rx \in [pc : {"call"}, call : RerankCalls \cup EmbeddingCalls,
               outcome : ProviderOutcomes]
    /\ mg = Idle
    /\ mm = Idle

NextProviders == CohereRerank \/ VoyageGenerateEmbedding

SpecProviders == InitProviders /\ [][NextProviders]_vars

\* the kind of an error as a caller can tell it without reading the message
KindOfError(error) ==
    CASE error.name = "AuthenticationError" -> "authentication"
      [] error.name = "RateLimitError" -> "rate-limit"
      [] error.name = "TransientServerError" -> "server error"
      [] OTHER -> "other"

\* C30: when the provider fails, rerank and generateEmbedding return no result
\* and raise an error whose kind, told without matching message text, is the
\* kind of the provider's failure
C30_ErrorKindMatchesProviderFailure ==
    rx.pc \in {"returned", "thrown"} /\ rx.called /\ rx.outcome \in ProviderFailures =>
       /\ rx.pc = "thrown"
       /\ KindOfError(rx.error) = rx.outcome.kind

(***************************************************************************)
(* FallbackEmbeddingService: an ordered list of embedding providers        *)
(***************************************************************************)

\* the most providers a fallback service is tried with
MaxProviders == 3

\* what a provider's generateEmbedding does: resolves with its own vector or
\* rejects with a reason
ProviderBehaviours ==
    [ok : {TRUE}, reason : {<<>>}]
    \cup [ok : {FALSE}, reason : {<<"timeout">>, <<"invalid api key">>}]

\* this.providers
ProviderLists ==
    UNION {[1..n -> ProviderBehaviours] : n \in 0..MaxProviders}

\* one iteration of the loop over this.providers: the provider's result is
\* returned, or its failure is logged and the loop continues
FallbackAttempt ==
    /\ rx.pc = "fallback"
    /\ rx.next <= Len(rx.providers)
    /\ rx' = IF rx.providers[rx.next].ok
             THEN [pc |-> "returned", providers |-> rx.providers,
                   tried |-> Append(rx.tried, rx.next),
                   warnings |-> rx.warnings, result |-> rx.next]
             ELSE [rx EXCEPT !.next = rx.next + 1,
                             !.tried = Append(rx.tried, rx.next),
                             !.warnings = Append(rx.warnings, rx.next)]
    /\ UNCHANGED <<initialized, dimensions, index, nodes, last, mg, mm>>

\* after the loop: throw new Error('All embedding providers failed')
FallbackExhausted ==
    /\ rx.pc = "fallback"
    /\ rx.next > Len(rx.providers)
    /\ rx' = [pc |-> "thrown", providers |-> rx.providers, tried |-> rx.tried,
              warnings |-> rx.warnings,
              error |-> Error(<<"All embedding providers failed">>)]
    /\ UNCHANGED <<initialized, dimensions, index, nodes, last, mg, mm>>

InitFallback ==
    /\ initialized = FALSE
    /\ dimensions = MaxDim
    /\ index = NoIndex
    /\ nodes = <<>>
    /\ last = NoCall
    /\ rx \in [pc : {"fallback"}, providers : ProviderLists, next : {1},
               tried : {<<>>}, warnings : {<<>>}]
    /\ mg = Idle
    /\ mm = Idle

NextFallback == FallbackAttempt \/ FallbackExhausted

SpecFallback == InitFallback /\ [][NextFallback]_vars

\* the providers of the list that resolve
Succeeding(providers) == {k \in 1..Len(providers) : providers[k].ok}

\* C31: the fallback service tries its providers in list order, returns the
\* first successful result, and fails only when every provider has failed,
\* with an error that names each provider's failure reason
C31_FirstSuccessOrAggregateError ==
    /\ rx.pc \in {"fallback", "returned", "thrown"}
          => \A k \in 1..Len(rx.tried) : rx.tried[k] = k
    /\ rx.pc = "returned"
          => /\ rx.result \in Succeeding(rx.providers)
             /\ \A k \in Succeeding(rx.providers) : rx.result <= k
             /\ Len(rx.tried) = rx.result
    /\ rx.pc = "thrown"
          => /\ Succeeding(rx.providers) = {}
             /\ Len(rx.tried) = Len(rx.providers)
             /\ \A k \in 1..Len(rx.providers) :
                   Includes(rx.error.message, rx.providers[k].reason)

\* the entities the selection of the run in progress returned: the live
\* entities that are candidates under the run's options and named in it
SelectedBy(run) ==
    {i \in ReindexCandidates(run.options) : nodes[i].name \in Elements(run.entities)}

\* C32: a reindexEmbeddings run writes embedding and provenance fields only on
\* the entities its selection returned, never on a historical version or an
\* entity outside the filters, even one that shares a selected entity's name
C32_WritesOnlySelectedEntities ==
    [][rx.pc = "run" =>
          \A i \in NodeIds : nodes'[i] # nodes[i] => i \in SelectedBy(rx)]_vars

\* C33: after backupEmbeddings returns, an entity carries a shadow field only
\* if it has an embedding, and the shadow equals that embedding: no shadow of
\* an earlier backup survives
C33_BackupLeavesNoOlderShadow ==
    Completed("backupEmbeddings") =>
       \A i \in ShadowedIn(mm.call.after) :
          /\ mm.call.after[i].emb # NULL
          /\ mm.call.after[i].backup = mm.call.after[i].emb

\* C34: for every setting of OPENAI_EMBEDDING_MODEL, OPENAI_EMBEDDING_DIMENSIONS
\* and NEO4J_VECTOR_DIMENSIONS, the index dimension that validate() reports
\* equals the vector dimension that DEFAULT_NEO4J_CONFIG and the
\* Neo4jVectorStore constructor resolve from the same settings
C34_OneResolutionOfIndexDimension ==
    rx.pc = "constructed" =>
       /\ StrictEquals(rx.vectorDimensions,
                       Num(rx.result.config.vectorIndexDimensions))
       /\ StrictEquals(rx.storeDimensions,
                       Num(rx.result.config.vectorIndexDimensions))

Wanted(o) ==
    {i \in NodeIds :
       /\ nodes[i].live
       /\ o.entityTypes.given => nodes[i].etype \in Elements(o.entityTypes.value)
       /\ o.namePattern.given => RegexMatches(nodes[i].name, o.namePattern.value)
       /\ ~(o.force /\ ~o.onlyMissing) => nodes[i].emb = NULL}

\* C36: without a custom query the selection is exactly the wanted entities,
\* newest first, cut to at most limit entities whenever a limit is given; so
\* a selection without force has no entity that already has an embedding
C36_SelectsWantedNewestFirstWithinLimit ==
    rx.pc = "selected" =>
       LET o == rx.options
           entities == rx.entities
           wanted == Wanted(o)
           size == IF rx.limitGiven THEN Min(o.limit, Cardinality(wanted))
                   ELSE Cardinality(wanted)
       IN /\ Len(entities) = size
          /\ \E s \in TopK(wanted, [i \in NodeIds |-> RecencyKey(nodes[i])], size) :
                entities = [k \in 1..Len(s) |-> nodes[s[k]].name]
          /\ ~o.force => \A i \in NodeIds :
                nodes[i].live /\ nodes[i].name \in Elements(entities)
                   => nodes[i].emb = NULL

\* the id occurs more than once in the list L
Repeated(L, id) ==
    \E i, j \in 1..Len(L) : i # j /\ L[i].id = id /\ L[j].id = id

\* C37: a hybrid search returns each entity id at most once, and an id that
\* occurs more than once in a sub-query list gets from that list the
\* contribution 1/(k + its best rank in the list), counted once
C37_RepeatedIdCountsOnceAtBestRank ==
    ReturnedByHybrid =>
       /\ \A i, j \in 1..Len(last.results) :
             last.results[i].id = last.results[j].id => i = j
       /\ \A i \in 1..Len(last.results) :
             Repeated(last.V, last.results[i].id)
                \/ Repeated(last.K, last.results[i].id)
             => RatEq(last.results[i].similarity,
                      FusedByFormula(last.results[i].id))

\* the number of entities that dimensionCounts reports with a vector length
\* other than d
RECURSIVE CountedOtherThan(_, _, _)
CountedOtherThan(dimensionCounts, dims, d) ==
    IF dims = {} THEN 0
    ELSE LET e == CHOOSE x \in dims : TRUE
         IN (IF e # d THEN dimensionCounts[e] ELSE 0)
            + CountedOtherThan(dimensionCounts, dims \ {e}, d)

\* C38: on any graph, clearAllEmbeddings(dryRun = true) returns the
\* entitiesWithEmbeddings that analyzeEmbeddingState reports there, and
\* clearMismatchedEmbeddings(d, dryRun = true) returns the number of entities
\* with a vector length other than d in the dimensionCounts of
\* analyzeEmbeddingState(d)
C38_DryRunCountsAgreeWithAnalysis ==
    /\ Completed("clearAllEmbeddings") /\ mm.call.args.dryRun =>
          \A d \in Dimensions :
             \A summary \in EmbeddingStateSummaries(mm.call.before, d) :
                mm.call.result = summary.entitiesWithEmbeddings
    /\ Completed("clearMismatchedEmbeddings") /\ mm.call.args.dryRun =>
          \A summary \in EmbeddingStateSummaries(mm.call.before,
                                                 mm.call.args.expectedDimensions) :
             mm.call.result
                = CountedOtherThan(summary.dimensionCounts,
                                   DOMAIN summary.dimensionCounts,
                                   mm.call.args.expectedDimensions)

\* ---------------------------------------------------------------------
\* clearMismatchedEmbeddings and clearAllEmbeddings beside other writers.
\* Each runs two auto-commit statements on one session, outside any
\* transaction: the count query, then the REMOVE; the value returned is the
\* count of the first statement. Other sessions may commit between the two.

\* the count query: a call that has counted and goes on to the REMOVE is
\* pending, and holds its count
clearCount(op, args, S) ==
    \/ Called(op, NoCommand, args, "error", 0, nodes, "returned")
    \/ /\ Cardinality(S) = 0 \/ args.dryRun
       /\ Called(op, NoCommand, args, "ok", Cardinality(S), nodes, "returned")
    \/ /\ Cardinality(S) # 0 /\ ~args.dryRun
       /\ nodes' = nodes
       /\ mm' = [mm EXCEPT !.pc = "counted",
                           !.call = Call(op, NoCommand, args, "pending",
                                         Cardinality(S), nodes, nodes)]

\* one call of a clear operation
ClearCount ==
    /\ mm.pc = "idle"
    /\ \/ \E d \in Dimensions : \E dryRun \in BOOLEAN :
             clearCount("clearMismatchedEmbeddings",
                        [expectedDimensions |-> d, dryRun |-> dryRun],
                        MismatchedIn(nodes, d))
       \/ \E dryRun \in BOOLEAN :
             clearCount("clearAllEmbeddings", [dryRun |-> dryRun],
                        EmbeddedIn(nodes))
    /\ UNCHANGED <<initialized, dimensions, index, last, rx, mg>>

\* the REMOVE statement: it matches on the graph as it is now, and the call
\* returns the count it took before; before and after are the graph around
\* this statement
ClearRemove ==
    /\ mm.pc = "counted"
    /\ LET call == mm.call
           S == IF call.op = "clearAllEmbeddings" THEN EmbeddedIn(nodes)
                ELSE MismatchedIn(nodes, call.args.expectedDimensions)
       IN \/ /\ nodes' = nodes
             /\ mm' = [mm EXCEPT !.pc = "returned",
                                 !.call = Call(call.op, NoCommand, call.args,
                                               "error", 0, nodes, nodes)]
          \/ /\ nodes' = EmbeddingsRemoved(nodes, S)
             /\ mm' = [mm EXCEPT !.pc = "returned",
                                 !.call = Call(call.op, NoCommand, call.args,
                                               "ok", call.result, nodes,
                                               EmbeddingsRemoved(nodes, S))]
    /\ UNCHANGED <<initialized, dimensions, index, last, rx, mg>>

\* an initialized store and a graph whose entities have no embedding or one
\* of some length
InitClearRace ==
    /\ initialized = TRUE
    /\ dimensions = MaxDim
    /\ index = Index(dimensions)
    /\ \E g \in InitialGraphs :
          \E embs \in [1..Len(g) -> {NULL} \cup {Vec(d, "1") : d \in Dimensions}] :
             nodes = [i \in 1..Len(g) |-> [g[i] EXCEPT !.emb = embs[i]]]
    /\ last = NoCall
    /\ rx = Idle
    /\ mg = Idle
    /\ mm = NoCalls

\* the writers beside the clear call, followed until the call has returned
InFlight == mm.pc # "returned"
AddVectorBeside == InFlight /\ AddVector
ReturnBeside == InFlight /\ Return
ReindexBeside ==
    /\ InFlight
    /\ rx.pc = "idle"
    /\ \E o \in {p \in PlainReindexOptions : ~p.dryRun /\ p.limit = 0} :
          \E svc \in Services : reindexEmbeddings(o, svc)
ReindexEntityBeside == InFlight /\ ReindexEntity
ReindexReturnBeside == InFlight /\ ReindexReturn

\* one clear call, beside a store that adds vectors and one reindex run
NextClearRace ==
    \/ AddVectorBeside \/ ReturnBeside
    \/ ReindexBeside \/ ReindexEntityBeside \/ ReindexReturnBeside
    \/ ClearCount \/ ClearRemove

SpecClearRace == InitClearRace /\ [][NextClearRace]_vars

\* C39: under any interleaving with a concurrent reindex or addVector write,
\* the count a completed clearAllEmbeddings or clearMismatchedEmbeddings
\* returns is the number of embeddings that call removed (a dry run, which
\* is to remove nothing, set aside)
C39_ReturnedCountIsNumberRemoved ==
    \A op \in ClearOps :
       Completed(op) /\ ~mm.call.args.dryRun
          => mm.call.result = Cardinality(RemovedBy(mm.call))

\* C40: every session a completed addVector or removeVector opened is closed
\* when the call returns or throws, a failing query or transaction step
\* included
C40_SessionsClosedOnReturnOrThrow ==
    last.op \in {"addVector", "removeVector"} /\ last.outcome # "pending"
        => last.closed = last.sessions
====
